---- MODULE Spec2Model ----
(***************************************************************************)
(* Model of the examline backend routes that drive the code execution      *)
(* engine:                                                                 *)
(*   POST /code-execution/run, /validate, /execute                         *)
(*        (src/examline/src/routes/codeExecution.route.ts)                 *)
(*   PUT  /exam-attempts/:attemptId/finish                                 *)
(*        (src/examline/src/routes/examAttempt.route.ts)                   *)
(*   POST /exams/test-solution-preview        (src/unnamed/part_000)       *)
(*                                                                         *)
(* One request is served per behaviour.  A handler is cut into steps at    *)
(* its awaits: a step runs from the resolution of one await to the next    *)
(* await or to the response.  prisma and CodeExecutionService are          *)
(* collaborators of the routes: a prisma read resolves to a row drawn from *)
(* a small set, an engine call resolves to a result or rejects with a      *)
(* fault.                                                                  *)
(*                                                                         *)
(* JavaScript values.  A text is a sequence of one-character strings.      *)
(* null and undefined behave alike in every expression of the modelled     *)
(* code (x?.trim(), x || '', !x, x !== undefined && x !== null), so both   *)
(* are the single value NULL; it is a sequence whose only element is not   *)
(* a character, which keeps it comparable with texts.  A language is a     *)
(* TLA+ string, "" standing for an absent or empty one (!language).        *)
(***************************************************************************)
EXTENDS Integers, Sequences, FiniteSets, TLC

VARIABLES
    pc,           \* position of the handler ("idle" before the request)
    route,        \* the route serving the request
    req,          \* the request: req.body, with req.params and req.user where read
    rows,         \* rows the handler has read from prisma
    testCases,    \* the test-case list a batch iterates over
    testResults,  \* const testResults: any[]
    passedTests,  \* let passedTests / let testsPasados
    engine,       \* the engine call in flight, or NoCall
    calls,        \* every engine call made so far, in order
    outcomes,     \* what each finished engine call resolved or rejected with
    updateData,   \* updateData of the finish handler
    dbWrite,      \* data of the prisma.examAttempt.update issued, or NoWrite
    res,          \* the response sent, or NoResponse
    cmp,          \* one output comparison, evaluated by both scoring paths
    gate,         \* slots of the engine's admission gate that are taken
    execs,        \* per concurrent request: its executeCode call in the sandbox
    attempts,     \* the examAttempt table, in the order of creation
    starts,       \* per concurrent POST /exam-attempts/start: its handler
    files,        \* the examFile table in the order of creation, deleted rows kept
    saves,        \* per concurrent exam-file request: its handler
    logins,       \* per POST /users/login compared with another: its handler
    exams,        \* the exam table as POST /exams/create fills it
    view,         \* the last request that reads exam data, and its response
    attemptRow,   \* the examAttempt row that concurrent requests read and update
    handlers      \* per concurrent request on that attempt: its handler

\* the state of one request served alone
routeVars == << pc, route, req, rows, testCases, testResults, passedTests, engine,
                calls, outcomes, updateData, dbWrite, res, cmp >>

\* the state of the requests served concurrently
concurrentVars == << gate, execs, attempts, starts, files, saves, logins, exams, view,
                    attemptRow, handlers >>

\* what a step of the sandbox leaves alone
outsideSandbox == << routeVars, attempts, starts, files, saves, logins, exams, view,
                    attemptRow, handlers >>

\* what a step of POST /exam-attempts/start leaves alone
outsideStart == << routeVars, gate, execs, files, saves, logins, exams, view,
                  attemptRow, handlers >>

\* what a step of the exam-file routes leaves alone
outsideFiles == << routeVars, gate, execs, attempts, starts, logins, exams, view,
                  attemptRow, handlers >>

\* what a step of POST /users/login leaves alone
outsideLogin == << routeVars, gate, execs, attempts, starts, files, saves, exams, view,
                  attemptRow, handlers >>

\* what the creation of exams and the engine calls on them leave alone
outsideExams == << pc, route, req, rows, testCases, testResults, passedTests,
                  calls, outcomes, updateData, dbWrite, cmp, gate, execs,
                  attempts, starts, saves, logins, view, attemptRow, handlers >>

\* what a request that reads exam data leaves alone
outsideView == << routeVars, gate, execs, attempts, starts, files, saves, logins,
                 exams, attemptRow, handlers >>

\* what a step of a request on the stored attempt leaves alone
outsideAttempt == << routeVars, gate, execs, attempts, starts, files, saves, logins,
                    exams, view >>

vars == << pc, route, req, rows, testCases, testResults, passedTests, engine,
           calls, outcomes, updateData, dbWrite, res, cmp, concurrentVars >>

(***************************************************************************)
(* Bounds of the model.                                                    *)
(***************************************************************************)
MaxCases == 3      \* longest test-case list of a batch
MaxLen == 3        \* longest text given to the output comparison
MaxConcurrent == 2 \* the concurrency cap of the engine, a deployment parameter
MaxBatch == 2      \* test cases of a batch served next to other requests
MaxExams == 2      \* exams created through POST /exams/create

(***************************************************************************)
(* Values.                                                                 *)
(***************************************************************************)
NULL == << "null" >>
EMPTY == << >>

WhiteSpace == { " ", "\n", "\t" }

NoCall == [ op |-> "none" ]
NoWrite == [ written |-> FALSE ]
NoResponse == [ status |-> 0 ]
NoCmp == [ phase |-> "off" ]
NoRows == [ loaded |-> "none" ]
NoRequest == [ none |-> TRUE ]

\* exitCode: null of a run that was killed (exit codes are 0..255)
NoExitCode == -1

Timeout == 10000
MaxMemory == "128m"

SupportedLanguages == { "python", "javascript" }

\* !x for a text: null, undefined and '' are falsy
Falsy(x) == x = NULL \/ x = EMPTY

\* x || ''
OrEmpty(x) == IF Falsy(x) THEN EMPTY ELSE x

RECURSIVE TrimStart(_)
TrimStart(s) ==
    IF s = EMPTY THEN s
    ELSE IF Head(s) \in WhiteSpace THEN TrimStart(Tail(s)) ELSE s

RECURSIVE TrimEnd(_)
TrimEnd(s) ==
    IF s = EMPTY THEN s
    ELSE IF s[Len(s)] \in WhiteSpace THEN TrimEnd(SubSeq(s, 1, Len(s) - 1)) ELSE s

\* String.prototype.trim
Trim(s) == TrimEnd(TrimStart(s))

\* x?.trim(): undefined when x is null or undefined
OptTrim(x) == IF x = NULL THEN NULL ELSE Trim(x)

(***************************************************************************)
(* The engine, seen from the routes: executeCode resolves to a result      *)
(* {output, error, exitCode, executionTime} or rejects with a fault.       *)
(***************************************************************************)
Outputs == { << "a", "\n" >>, NULL }

ExitCodes == { 0, 1, NoExitCode }

\* how a run ended: normally, with a non-zero exit code, or killed
Endings ==
    { [ error |-> NULL, exitCode |-> 0 ],
      [ error |-> << "E" >>, exitCode |-> 1 ],
      [ error |-> << "E" >>, exitCode |-> NoExitCode ] }

ExecutionResults ==
    { [ kind |-> "result", output |-> o, error |-> e.error,
        exitCode |-> e.exitCode, executionTime |-> 2 ] :
      o \in Outputs, e \in Endings }

\* err.message of a rejection; NULL is a fault without a message
FaultMessages == { << "F" >>, NULL }

Faults == [ kind : { "fault" }, message : FaultMessages ]

(***************************************************************************)
(* Request bodies.                                                         *)
(***************************************************************************)
Codes == { NULL, EMPTY, << "p" >> }
Languages == { "", "python", "javascript", "ruby" }
Inputs == { NULL, << "i" >> }
CustomInputs == { NULL, EMPTY, << "i" >> }
\* examId of POST /run; 0 is an absent one (if (examId) is false)
ExamIds == { 0, 1 }

TestCasePool ==
    { [ input |-> << "i" >>, expectedOutput |-> << "a" >>, description |-> << "d" >> ],
      [ input |-> NULL, expectedOutput |-> NULL, description |-> NULL ] }

\* testCases absent from the body or the row (null, undefined)
NoTestCases == << [ absent |-> TRUE ] >>

TestCaseLists == UNION { [ 1..n -> TestCasePool ] : n \in 0..MaxCases }

RunBodies ==
    [ code : Codes, language : Languages, examId : ExamIds, input : Inputs ]

ValidateBodies == [ code : Codes, language : Languages ]

ExecuteBodies ==
    [ code : Codes, language : Languages, customInput : CustomInputs,
      testCases : TestCaseLists \cup { NoTestCases } ]

(***************************************************************************)
(* prisma rows.                                                            *)
(***************************************************************************)
NoRow == [ found |-> FALSE ]

Exams ==
    [ id : { 1 }, tipo : { "programming", "multiple_choice" },
      lenguajeProgramacion : SupportedLanguages,
      testCases : TestCaseLists \cup { NoTestCases } ]

(***************************************************************************)
(* Steps shared by the handlers.                                           *)
(***************************************************************************)
\* a call of the engine starts
Invoke(c) ==
    /\ engine' = c
    /\ calls' = Append(calls, c)

\* the call in flight resolves to, or rejects with, o
Settle(o) ==
    /\ engine' = NoCall
    /\ outcomes' = Append(outcomes, o)

\* return res.status(status).json(b)
Respond(status, b) ==
    /\ res' = [ status |-> status, body |-> b ]
    /\ pc' = "done"

ExecuteCodeCall(code, language, options) ==
    [ op |-> "executeCode", code |-> code, language |-> language,
      options |-> options ]

\* { timeout: 10000, maxMemory: '128m', input }
RouteOptions(input) ==
    [ timeout |-> Timeout, maxMemory |-> MaxMemory, input |-> input ]

\* mutant of MissingCodeOrLanguage: only the code is required
MissingCodeOnly(b) == Falsy(b.code)

\* if (!code || !language)
MissingCodeOrLanguage(b) == Falsy(b.code) \/ b.language = ""

\* ['python', 'javascript'].includes(language)
IsSupported(language) == language \in SupportedLanguages

RequiredError == [ error |-> "Codigo y lenguaje son requeridos" ]
UnsupportedError ==
    [ error |-> "Lenguaje no soportado. Use \"python\" o \"javascript\"" ]
InternalError(f) ==
    [ error |-> "Error interno al ejecutar codigo", details |-> f.message ]

(***************************************************************************)
(* POST /code-execution/run                                                *)
(***************************************************************************)
RunCall(b) == ExecuteCodeCall(b.code, b.language, RouteOptions(OrEmpty(b.input)))

\* mutant of RunResponse: the result's error is left out of the answer
RunResponseWithoutError(r) ==
    [ success |-> TRUE, output |-> r.output, error |-> NULL,
      exitCode |-> r.exitCode, executionTime |-> r.executionTime ]

RunResponse(r) ==
    [ success |-> TRUE, output |-> r.output, error |-> r.error,
      exitCode |-> r.exitCode, executionTime |-> r.executionTime ]

\* the request arrives: validations, then the exam lookup or the execution
RunRequest ==
    /\ pc = "idle"
    /\ \E b \in RunBodies :
        /\ route' = "run"
        /\ req' = b
        /\ IF MissingCodeOrLanguage(b)
           THEN Respond(400, RequiredError) /\ UNCHANGED << engine, calls >>
           ELSE IF ~IsSupported(b.language)
           THEN Respond(400, UnsupportedError) /\ UNCHANGED << engine, calls >>
           ELSE IF b.examId # 0
           THEN pc' = "run_exam" /\ UNCHANGED << res, engine, calls >>
           ELSE pc' = "run_exec" /\ Invoke(RunCall(b)) /\ UNCHANGED res
    /\ UNCHANGED << rows, testCases, testResults, passedTests, outcomes,
                    updateData, dbWrite, cmp, concurrentVars >>

\* prisma.exam.findUnique resolves
RunExamLoaded ==
    /\ pc = "run_exam"
    /\ \E e \in Exams \cup { NoRow } :
        /\ rows' = [ exam |-> e ]
        /\ IF e = NoRow
           THEN Respond(404, [ error |-> "Examen no encontrado" ])
                /\ UNCHANGED << engine, calls >>
           ELSE IF e.tipo # "programming"
           THEN Respond(400, [ error |-> "Este examen no es de tipo programacion" ])
                /\ UNCHANGED << engine, calls >>
           ELSE pc' = "run_exec" /\ Invoke(RunCall(req)) /\ UNCHANGED res
    /\ UNCHANGED << route, req, testCases, testResults, passedTests, outcomes,
                    updateData, dbWrite, cmp, concurrentVars >>

\* executeCode resolves
RunReturned(r) ==
    /\ pc = "run_exec"
    /\ Settle(r)
    /\ Respond(200, RunResponse(r))
    /\ UNCHANGED << route, req, rows, testCases, testResults, passedTests,
                    calls, updateData, dbWrite, cmp, concurrentVars >>

\* executeCode rejects: the handler's catch
RunCaught(f) ==
    /\ pc = "run_exec"
    /\ Settle(f)
    /\ Respond(500, InternalError(f))
    /\ UNCHANGED << route, req, rows, testCases, testResults, passedTests,
                    calls, updateData, dbWrite, cmp, concurrentVars >>

RunExecuted == \E r \in ExecutionResults : RunReturned(r)

RunFailed == \E f \in Faults : RunCaught(f)

\* prisma.exam.findUnique rejects: the handler's catch
RunLookupFailed ==
    /\ pc = "run_exam"
    /\ \E f \in Faults : Respond(500, InternalError(f))
    /\ UNCHANGED << route, req, rows, testCases, testResults, passedTests,
                    engine, calls, outcomes, updateData, dbWrite, cmp, concurrentVars >>

(***************************************************************************)
(* POST /code-execution/validate                                           *)
(***************************************************************************)
ValidationResults ==
    { [ kind |-> "validation", valid |-> TRUE, errors |-> << >> ],
      [ kind |-> "validation", valid |-> FALSE, errors |-> << << "E" >> >> ] }

ValidateSyntaxCall(b) ==
    [ op |-> "validateSyntax", code |-> b.code, language |-> b.language ]

ValidateRequest ==
    /\ pc = "idle"
    /\ \E b \in ValidateBodies :
        /\ route' = "validate"
        /\ req' = b
        /\ IF MissingCodeOrLanguage(b)
           THEN Respond(400, RequiredError) /\ UNCHANGED << engine, calls >>
           ELSE pc' = "validate_exec" /\ Invoke(ValidateSyntaxCall(b))
                /\ UNCHANGED res
    /\ UNCHANGED << rows, testCases, testResults, passedTests, outcomes,
                    updateData, dbWrite, cmp, concurrentVars >>

\* validateSyntax resolves
ValidateDone ==
    /\ pc = "validate_exec"
    /\ \E v \in ValidationResults :
        /\ Settle(v)
        /\ Respond(200, [ valid |-> v.valid, errors |-> v.errors ])
    /\ UNCHANGED << route, req, rows, testCases, testResults, passedTests,
                    calls, updateData, dbWrite, cmp, concurrentVars >>

\* validateSyntax rejects: the handler's catch
ValidateFailed ==
    /\ pc = "validate_exec"
    /\ \E f \in Faults :
        /\ Settle(f)
        /\ Respond(500, [ error |-> "Error interno al validar codigo",
                          details |-> f.message ])
    /\ UNCHANGED << route, req, rows, testCases, testResults, passedTests,
                    calls, updateData, dbWrite, cmp, concurrentVars >>

\* mutant of HasTestCases: the length of the list is not looked at
IsTestCaseArray(t) == t # NoTestCases

(***************************************************************************)
(* POST /code-execution/execute                                            *)
(***************************************************************************)
\* testCases && Array.isArray(testCases) && testCases.length > 0
HasTestCases(t) == t # NoTestCases /\ Len(t) > 0

\* mutant of HasCustomInput: an empty customInput counts as none
CustomInputTruthy(b) == ~Falsy(b.customInput)

\* customInput !== undefined && customInput !== null
HasCustomInput(b) == b.customInput # NULL

\* mutant of Push: the entry is put in front
PushFront(results, entry) == << entry >> \o results

\* testResults.push(entry)
Push(results, entry) == Append(results, entry)

\* mutant of Count: every case is counted
CountEveryCase(passed, n) == n + 1

\* if (passed) passedTests++
Count(passed, n) == IF passed THEN n + 1 ELSE n

\* (passed / total) * 100, as the fraction num/den; den = 0 is NaN (0/0)
Score(passed, total) == [ num |-> passed * 100, den |-> total ]

ErrorDesconocido == << "Error desconocido" >>

\* result.output?.trim() === testCase.expectedOutput?.trim()
ExecutePassed(r, tc) == OptTrim(r.output) = OptTrim(tc.expectedOutput)

\* the entry pushed in the try block
ExecuteEntry(tc, r) ==
    [ input |-> tc.input, expectedOutput |-> tc.expectedOutput,
      actualOutput |-> OptTrim(r.output), passed |-> ExecutePassed(r, tc),
      error |-> r.error, executionTime |-> r.executionTime ]

\* the entry pushed in the catch block
ExecuteFaultEntry(tc, f) ==
    [ input |-> tc.input, expectedOutput |-> tc.expectedOutput,
      passed |-> FALSE,
      error |-> IF Falsy(f.message) THEN ErrorDesconocido ELSE f.message ]

\* mutant of ExecuteCaseCall: the input of the case is passed as it is
ExecuteCaseCallRawInput(b, tc) ==
    ExecuteCodeCall(b.code, b.language, RouteOptions(tc.input))

ExecuteCaseCall(b, tc) ==
    ExecuteCodeCall(b.code, b.language, RouteOptions(OrEmpty(tc.input)))

\* the response of a single execution
SingleResponse(r) ==
    [ success |-> Falsy(r.error), output |-> r.output, error |-> r.error,
      exitCode |-> r.exitCode, executionTime |-> r.executionTime ]

BatchResponse(tcs, results, passed) ==
    [ success |-> TRUE, score |-> Score(passed, Len(tcs)),
      passedTests |-> passed, totalTests |-> Len(tcs), testResults |-> results ]

\* The for-of loop after `done` iterations, with the entries and the count so
\* far: the next case is executed, or the loop is over and the batch answered.
ExecuteLoop(b, tcs, done, results, passed) ==
    /\ testResults' = results
    /\ passedTests' = passed
    /\ IF done < Len(tcs)
       THEN /\ pc' = "execute_case"
            /\ Invoke(ExecuteCaseCall(b, tcs[done + 1]))
            /\ UNCHANGED res
       ELSE /\ Respond(200, BatchResponse(tcs, results, passed))
            /\ engine' = NoCall
            /\ UNCHANGED calls

\* the request arrives: validations, then the mode is chosen
ExecuteRequest ==
    /\ pc = "idle"
    /\ \E b \in ExecuteBodies :
        /\ route' = "execute"
        /\ req' = b
        /\ IF MissingCodeOrLanguage(b)
           THEN /\ Respond(400, RequiredError)
                /\ UNCHANGED << engine, calls, testCases, testResults, passedTests >>
           ELSE IF ~IsSupported(b.language)
           THEN /\ Respond(400, UnsupportedError)
                /\ UNCHANGED << engine, calls, testCases, testResults, passedTests >>
           ELSE IF HasCustomInput(b)
           THEN /\ pc' = "execute_single"
                /\ Invoke(ExecuteCodeCall(b.code, b.language,
                                          RouteOptions(b.customInput)))
                /\ UNCHANGED << res, testCases, testResults, passedTests >>
           ELSE IF HasTestCases(b.testCases)
           THEN /\ testCases' = b.testCases
                /\ ExecuteLoop(b, b.testCases, 0, << >>, 0)
           ELSE /\ pc' = "execute_single"
                /\ Invoke(ExecuteCodeCall(b.code, b.language, RouteOptions(EMPTY)))
                /\ UNCHANGED << res, testCases, testResults, passedTests >>
    /\ UNCHANGED << rows, outcomes, updateData, dbWrite, cmp, concurrentVars >>

\* executeCode of a single execution resolves
ExecuteSingleReturned(r) ==
    /\ pc = "execute_single"
    /\ Settle(r)
    /\ Respond(200, SingleResponse(r))
    /\ UNCHANGED << route, req, rows, testCases, testResults, passedTests,
                    calls, updateData, dbWrite, cmp, concurrentVars >>

\* executeCode of a single execution rejects: the handler's catch
ExecuteSingleCaught(f) ==
    /\ pc = "execute_single"
    /\ Settle(f)
    /\ Respond(500, InternalError(f))
    /\ UNCHANGED << route, req, rows, testCases, testResults, passedTests,
                    calls, updateData, dbWrite, cmp, concurrentVars >>

\* executeCode of a test case resolves: the try block, then the loop goes on
ExecuteCaseReturned(r) ==
    /\ pc = "execute_case"
    /\ outcomes' = Append(outcomes, r)
    /\ LET tc == testCases[Len(outcomes) + 1]
       IN  ExecuteLoop(req, testCases, Len(outcomes) + 1,
                       Push(testResults, ExecuteEntry(tc, r)),
                       Count(ExecutePassed(r, tc), passedTests))
    /\ UNCHANGED << route, req, rows, testCases, updateData, dbWrite, cmp, concurrentVars >>

\* mutant of ExecuteCaseCaught: no try/catch around the case, the fault reaches
\* the handler's catch
ExecuteCaseAborts(f) ==
    /\ pc = "execute_case"
    /\ Settle(f)
    /\ Respond(500, InternalError(f))
    /\ UNCHANGED << route, req, rows, testCases, testResults, passedTests,
                    calls, updateData, dbWrite, cmp, concurrentVars >>

\* executeCode of a test case rejects: the catch block, then the loop goes on
ExecuteCaseCaught(f) ==
    /\ pc = "execute_case"
    /\ outcomes' = Append(outcomes, f)
    /\ LET tc == testCases[Len(outcomes) + 1]
       IN  ExecuteLoop(req, testCases, Len(outcomes) + 1,
                       Push(testResults, ExecuteFaultEntry(tc, f)),
                       passedTests)
    /\ UNCHANGED << route, req, rows, testCases, updateData, dbWrite, cmp, concurrentVars >>

ExecuteSingleDone == \E r \in ExecutionResults : ExecuteSingleReturned(r)

ExecuteSingleFailed == \E f \in Faults : ExecuteSingleCaught(f)

ExecuteCaseDone == \E r \in ExecutionResults : ExecuteCaseReturned(r)

ExecuteCaseFaulted == \E f \in Faults : ExecuteCaseCaught(f)

(***************************************************************************)
(* PUT /exam-attempts/:attemptId/finish                                    *)
(***************************************************************************)
\* respuestas of the body, by question index; << >> is an absent or empty one
RespuestasPool == { << >>, << 0, 0 >> }

\* req.params.attemptId, req.user.userId and the body.  codigoProgramacion of
\* the body is destructured and never read.
FinishRequests ==
    [ attemptId : { "1", "x" }, userId : { 1 }, respuestas : RespuestasPool ]

\* isNaN(parseInt(req.params.attemptId))
IsNaNId(id) == id \notin { "1" }

\* prisma.examAttempt.findUnique({ where: { id }, include: { exam: true } })
Attempts ==
    [ id : { 1 }, userId : { 1, 2 }, examId : { 1 },
      estado : { "en_progreso", "finalizado" }, exam : Exams ]

\* exam.lenguajeProgramacion === 'python' ? 'main.py' : 'main.js'
MainFileName(exam) ==
    IF exam.lenguajeProgramacion = "python" THEN "main.py" ELSE "main.js"

\* prisma.examFile.findFirst({ where: { examId, userId, filename, version: 'manual' } })
MainFiles(exam, userId) ==
    [ examId : { exam.id }, userId : { userId }, filename : { MainFileName(exam) },
      version : { "manual" }, content : { EMPTY, << "p" >> } ]

\* exam.preguntas of prisma.exam.findUnique({ include: { preguntas: true } })
PreguntaLists ==
    { << >>, << [ correcta |-> 0 ] >>, << [ correcta |-> 0 ], [ correcta |-> 1 ] >> }

\* (testCase.expectedOutput || '').trim() === (result.output || '').trim()
\*   && result.exitCode === 0
FinishPassed(r, tc) ==
    /\ Trim(OrEmpty(r.output)) = Trim(OrEmpty(tc.expectedOutput))
    /\ r.exitCode = 0

SinDescripcion == << "Test sin descripcion" >>

\* testCase.description || 'Test sin descripción'
Description(tc) == IF Falsy(tc.description) THEN SinDescripcion ELSE tc.description

\* the entry pushed in the try block
FinishEntry(tc, r) ==
    [ description |-> Description(tc), passed |-> FinishPassed(r, tc),
      expected |-> Trim(OrEmpty(tc.expectedOutput)),
      actual |-> Trim(OrEmpty(r.output)),
      error |-> r.error, executionTime |-> r.executionTime ]

\* the entry pushed in the catch block
FinishFaultEntry(tc, f) ==
    [ description |-> Description(tc), passed |-> FALSE,
      expected |-> tc.expectedOutput, actual |-> EMPTY,
      error |-> f.message, executionTime |-> 0 ]

\* executeCode(codigoParaEvaluar, exam.lenguajeProgramacion, { input, timeout })
FinishCaseCall(code, exam, tc) ==
    ExecuteCodeCall(code, exam.lenguajeProgramacion,
                    [ input |-> OrEmpty(tc.input), timeout |-> Timeout ])

\* respuestas?.[index] !== undefined, for the 0-based index of forEach
HasRespuesta(respuestas, index) == index + 1 \in DOMAIN respuestas

\* correctas after exam.preguntas.forEach
Correctas(preguntas, respuestas) ==
    Cardinality({ i \in DOMAIN preguntas :
                    /\ HasRespuesta(respuestas, i - 1)
                    /\ respuestas[i] = preguntas[i].correcta })

FinishError(text) == [ error |-> text ]

\* mutant of FinishLoop: the cases left are all started at once
FinishLoopAllAtOnce(data, tcs, done, results, passed) ==
    /\ testResults' = results
    /\ passedTests' = passed
    /\ IF done < Len(tcs)
       THEN /\ pc' = "finish_case"
            /\ engine' = FinishCaseCall(data.codigoProgramacion, rows.exam,
                                        tcs[done + 1])
            /\ calls' = calls \o [ i \in 1..(Len(tcs) - done) |->
                                     FinishCaseCall(data.codigoProgramacion,
                                                    rows.exam, tcs[done + i]) ]
            /\ updateData' = data
       ELSE /\ pc' = "finish_update"
            /\ updateData' = [ puntaje |-> Score(passed, Len(tcs)),
                               testResults |-> results ] @@ data
            /\ engine' = NoCall
            /\ UNCHANGED calls

\* The for-of loop after `done` iterations, `data` being updateData so far:
\* the next case is executed, or the loop is over, the puntaje is computed and
\* the update is issued.
FinishLoop(data, tcs, done, results, passed) ==
    /\ testResults' = results
    /\ passedTests' = passed
    /\ IF done < Len(tcs)
       THEN /\ pc' = "finish_case"
            /\ Invoke(FinishCaseCall(data.codigoProgramacion, rows.exam,
                                     tcs[done + 1]))
            /\ updateData' = data
       ELSE /\ pc' = "finish_update"
            /\ updateData' = [ puntaje |-> Score(passed, Len(tcs)),
                               testResults |-> results ] @@ data
            /\ engine' = NoCall
            /\ UNCHANGED calls

\* the request arrives
FinishRequest ==
    /\ pc = "idle"
    /\ \E q \in FinishRequests :
        /\ route' = "finish"
        /\ req' = q
        /\ IF IsNaNId(q.attemptId)
           THEN Respond(400, FinishError("ID de intento invalido"))
           ELSE pc' = "finish_attempt" /\ UNCHANGED res
    /\ UNCHANGED << rows, testCases, testResults, passedTests, engine, calls,
                    outcomes, updateData, dbWrite, cmp, concurrentVars >>

\* mutant of FinishAttemptLoaded: the estado of the attempt is not checked
FinishAttemptLoadedAnyEstado ==
    /\ pc = "finish_attempt"
    /\ \E a \in Attempts \cup { NoRow } :
        /\ rows' = [ attempt |-> a ]
        /\ IF a = NoRow
           THEN Respond(404, FinishError("Intento no encontrado"))
                /\ UNCHANGED updateData
           ELSE IF a.userId # req.userId
           THEN Respond(403, FinishError("No autorizado"))
                /\ UNCHANGED updateData
           ELSE IF a.exam.tipo = "programming"
           THEN /\ updateData' = [ finishedAt |-> "now", estado |-> "finalizado" ]
                /\ pc' = "finish_exam"
                /\ UNCHANGED res
           ELSE IF a.exam.tipo = "multiple_choice"
           THEN /\ updateData' = [ finishedAt |-> "now", estado |-> "finalizado",
                                   respuestas |-> req.respuestas ]
                /\ pc' = "finish_preguntas"
                /\ UNCHANGED res
           ELSE /\ updateData' = [ finishedAt |-> "now", estado |-> "finalizado" ]
                /\ pc' = "finish_update"
                /\ UNCHANGED res
    /\ UNCHANGED << route, req, testCases, testResults, passedTests, engine,
                    calls, outcomes, dbWrite, cmp, concurrentVars >>

\* prisma.examAttempt.findUnique resolves
FinishAttemptLoaded ==
    /\ pc = "finish_attempt"
    /\ \E a \in Attempts \cup { NoRow } :
        /\ rows' = [ attempt |-> a ]
        /\ IF a = NoRow
           THEN Respond(404, FinishError("Intento no encontrado"))
                /\ UNCHANGED updateData
           ELSE IF a.userId # req.userId
           THEN Respond(403, FinishError("No autorizado"))
                /\ UNCHANGED updateData
           ELSE IF a.estado # "en_progreso"
           THEN Respond(400, FinishError("El intento ya fue finalizado"))
                /\ UNCHANGED updateData
           ELSE IF a.exam.tipo = "programming"
           THEN /\ updateData' = [ finishedAt |-> "now", estado |-> "finalizado" ]
                /\ pc' = "finish_exam"
                /\ UNCHANGED res
           ELSE IF a.exam.tipo = "multiple_choice"
           THEN /\ updateData' = [ finishedAt |-> "now", estado |-> "finalizado",
                                   respuestas |-> req.respuestas ]
                /\ pc' = "finish_preguntas"
                /\ UNCHANGED res
           ELSE /\ updateData' = [ finishedAt |-> "now", estado |-> "finalizado" ]
                /\ pc' = "finish_update"
                /\ UNCHANGED res
    /\ UNCHANGED << route, req, testCases, testResults, passedTests, engine,
                    calls, outcomes, dbWrite, cmp, concurrentVars >>

\* prisma.exam.findUnique of a programming exam resolves
FinishExamLoaded ==
    /\ pc = "finish_exam"
    /\ \E e \in { rows.attempt.exam, NoRow } :
        /\ rows' = [ attempt |-> rows.attempt, exam |-> e ]
        /\ IF e = NoRow
           THEN Respond(404, FinishError("Examen no encontrado"))
           ELSE pc' = "finish_file" /\ UNCHANGED res
    /\ UNCHANGED << route, req, testCases, testResults, passedTests, engine,
                    calls, outcomes, updateData, dbWrite, cmp, concurrentVars >>

\* prisma.examFile.findFirst resolves: the code to evaluate is the saved main
\* file, and the evaluation starts when the exam has test cases
FinishFileLoaded ==
    /\ pc = "finish_file"
    /\ \E f \in MainFiles(rows.exam, req.userId) \cup { NoRow } :
        /\ rows' = [ attempt |-> rows.attempt, exam |-> rows.exam, mainFile |-> f ]
        /\ IF f = NoRow
           THEN /\ Respond(400, FinishError("Debes guardar el archivo principal"))
                /\ UNCHANGED << updateData, testCases, testResults, passedTests,
                                engine, calls >>
           ELSE LET data == [ codigoProgramacion |-> OrEmpty(f.content) ] @@ updateData
                IN  IF HasTestCases(rows.exam.testCases)
                    THEN /\ testCases' = rows.exam.testCases
                         /\ FinishLoop(data, rows.exam.testCases, 0, << >>, 0)
                         /\ UNCHANGED res
                    ELSE /\ updateData' = data
                         /\ pc' = "finish_update"
                         /\ UNCHANGED << res, testCases, testResults, passedTests,
                                         engine, calls >>
    /\ UNCHANGED << route, req, outcomes, dbWrite, cmp, concurrentVars >>

\* executeCode of a test case resolves: the try block, then the loop goes on
FinishCaseReturned(r) ==
    /\ pc = "finish_case"
    /\ outcomes' = Append(outcomes, r)
    /\ LET tc == testCases[Len(outcomes) + 1]
       IN  FinishLoop(updateData, testCases, Len(outcomes) + 1,
                       Push(testResults, FinishEntry(tc, r)),
                       Count(FinishPassed(r, tc), passedTests))
    /\ UNCHANGED << route, req, rows, testCases, dbWrite, res, cmp, concurrentVars >>

\* executeCode of a test case rejects: the catch block, then the loop goes on
FinishCaseCaught(f) ==
    /\ pc = "finish_case"
    /\ outcomes' = Append(outcomes, f)
    /\ LET tc == testCases[Len(outcomes) + 1]
       IN  FinishLoop(updateData, testCases, Len(outcomes) + 1,
                       Push(testResults, FinishFaultEntry(tc, f)),
                       passedTests)
    /\ UNCHANGED << route, req, rows, testCases, dbWrite, res, cmp, concurrentVars >>

FinishCaseDone == \E r \in ExecutionResults : FinishCaseReturned(r)

FinishCaseFaulted == \E f \in Faults : FinishCaseCaught(f)

\* prisma.exam.findUnique of a multiple choice exam resolves
FinishPreguntasLoaded ==
    /\ pc = "finish_preguntas"
    /\ \E e \in { [ found |-> TRUE, preguntas |-> ps ] : ps \in PreguntaLists }
                \cup { NoRow } :
        /\ rows' = [ attempt |-> rows.attempt, exam |-> e ]
        /\ IF e # NoRow /\ Len(e.preguntas) > 0
           THEN updateData' =
                    [ puntaje |-> Score(Correctas(e.preguntas, req.respuestas),
                                        Len(e.preguntas)) ] @@ updateData
           ELSE UNCHANGED updateData
    /\ pc' = "finish_update"
    /\ UNCHANGED << route, req, testCases, testResults, passedTests, engine,
                    calls, outcomes, dbWrite, res, cmp, concurrentVars >>

\* prisma.examAttempt.update resolves: the attempt is answered as updated
FinishUpdated ==
    /\ pc = "finish_update"
    /\ dbWrite' = [ written |-> TRUE, id |-> rows.attempt.id, data |-> updateData ]
    /\ Respond(200, updateData @@ rows.attempt)
    /\ UNCHANGED << route, req, rows, testCases, testResults, passedTests,
                    engine, calls, outcomes, updateData, cmp, concurrentVars >>

\* an awaited prisma call rejects: the handler's catch
FinishFailed ==
    /\ pc \in { "finish_attempt", "finish_exam", "finish_file",
                "finish_preguntas", "finish_update" }
    /\ Respond(500, FinishError("Error finalizando intento de examen"))
    /\ UNCHANGED << route, req, rows, testCases, testResults, passedTests,
                    engine, calls, outcomes, updateData, dbWrite, cmp, concurrentVars >>

(***************************************************************************)
(* POST /exams/test-solution-preview                                       *)
(***************************************************************************)
PreviewBodies ==
    [ code : Codes, language : Languages,
      testCases : TestCaseLists \cup { NoTestCases } ]

RunTestsCall(b) ==
    [ op |-> "runTests", code |-> b.code, language |-> b.language,
      testCases |-> b.testCases, options |-> [ timeout |-> Timeout ] ]

\* The Test Harness (spec 4.5): a case passes only when the trimmed outputs
\* are equal and the exit code is 0.
HarnessPassed(r, tc) ==
    /\ Trim(OrEmpty(r.output)) = Trim(OrEmpty(tc.expectedOutput))
    /\ r.exitCode = 0

HarnessEntry(tc, r) ==
    [ input |-> tc.input, expectedOutput |-> tc.expectedOutput,
      actualOutput |-> r.output, passed |-> HarnessPassed(r, tc),
      error |-> r.error, executionTime |-> r.executionTime ]

\* runTests(code, language, testCases, options), rs[i] being the execution
\* result of case i
RunTests(tcs, rs) ==
    LET entries == [ i \in DOMAIN tcs |-> HarnessEntry(tcs[i], rs[i]) ]
        passed == Cardinality({ i \in DOMAIN tcs : entries[i].passed })
    IN  [ kind |-> "batch", score |-> Score(passed, Len(tcs)),
          passedTests |-> passed, totalTests |-> Len(tcs),
          testResults |-> entries ]

\* the request arrives: validations, then runTests
PreviewRequest ==
    /\ pc = "idle"
    /\ \E b \in PreviewBodies :
        /\ route' = "preview"
        /\ req' = b
        /\ IF Falsy(b.code)
           THEN /\ Respond(400, [ error |-> "Debe proporcionar codigo para ejecutar" ])
                /\ UNCHANGED << engine, calls >>
           ELSE IF b.language = "" \/ ~IsSupported(b.language)
           THEN /\ Respond(400, [ error |-> "Lenguaje no valido. Use 'python' o 'javascript'" ])
                /\ UNCHANGED << engine, calls >>
           ELSE IF ~HasTestCases(b.testCases)
           THEN /\ Respond(400, [ error |-> "Debe proporcionar test cases" ])
                /\ UNCHANGED << engine, calls >>
           ELSE /\ pc' = "preview_exec"
                /\ Invoke(RunTestsCall(b))
                /\ UNCHANGED res
    /\ UNCHANGED << rows, testCases, testResults, passedTests, outcomes,
                    updateData, dbWrite, cmp, concurrentVars >>

\* runTests resolves: { success: true, ...testResults }
PreviewDone ==
    /\ pc = "preview_exec"
    /\ \E rs \in [ DOMAIN req.testCases -> ExecutionResults ] :
        LET batch == RunTests(req.testCases, rs)
        IN  /\ Settle(batch)
            /\ Respond(200, [ success |-> TRUE, score |-> batch.score,
                              passedTests |-> batch.passedTests,
                              totalTests |-> batch.totalTests,
                              testResults |-> batch.testResults ])
    /\ UNCHANGED << route, req, rows, testCases, testResults, passedTests,
                    calls, updateData, dbWrite, cmp, concurrentVars >>

\* runTests rejects: the handler's catch
PreviewFailed ==
    /\ pc = "preview_exec"
    /\ \E f \in Faults :
        /\ Settle(f)
        /\ Respond(500, [ error |-> "Error interno al ejecutar tests",
                          details |-> f.message ])
    /\ UNCHANGED << route, req, rows, testCases, testResults, passedTests,
                    calls, updateData, dbWrite, cmp, concurrentVars >>

(***************************************************************************)
(* The engine of the spec (4.1, 7): execute(request) never fails.  A run   *)
(* of the sandbox ends with a result or with an engine-internal fault,     *)
(* and the fault is absorbed into a result whose error is populated.       *)
(***************************************************************************)
EngineFault == << "engine fault" >>

ExecuteCode(run) ==
    IF run.kind = "fault"
    THEN [ kind |-> "result", output |-> EMPTY,
           error |-> IF Falsy(run.message) THEN EngineFault ELSE run.message,
           exitCode |-> NoExitCode, executionTime |-> 0 ]
    ELSE run

SandboxRuns == ExecutionResults \cup Faults

\* Each await of executeCode over the engine of the spec: the route goes on
\* with the result, or into its catch if a fault escapes the engine.
RunSettled ==
    \E run \in SandboxRuns :
        LET o == ExecuteCode(run)
        IN  IF o.kind = "fault" THEN RunCaught(o) ELSE RunReturned(o)

ExecuteSingleSettled ==
    \E run \in SandboxRuns :
        LET o == ExecuteCode(run)
        IN  IF o.kind = "fault" THEN ExecuteSingleCaught(o)
                                ELSE ExecuteSingleReturned(o)

ExecuteCaseSettled ==
    \E run \in SandboxRuns :
        LET o == ExecuteCode(run)
        IN  IF o.kind = "fault" THEN ExecuteCaseCaught(o)
                                ELSE ExecuteCaseReturned(o)

(***************************************************************************)
(* The output comparison of the two scoring paths, applied to one pair of  *)
(* outputs and one exit code.                                              *)
(***************************************************************************)
Alphabet == { "a", " " }

Texts == UNION { [ 1..n -> Alphabet ] : n \in 0..MaxLen }

Verdict(passed) == IF passed THEN "passed" ELSE "failed"

ComparePairs ==
    [ phase : { "on" }, actual : Texts \cup { NULL }, expected : Texts \cup { NULL },
      exitCode : ExitCodes, execute : { "pending" }, finish : { "pending" } ]

CmpResult == [ output |-> cmp.actual, exitCode |-> cmp.exitCode ]
CmpTestCase == [ expectedOutput |-> cmp.expected ]

\* the comparison of POST /code-execution/execute
CompareInExecute ==
    /\ cmp # NoCmp
    /\ cmp.execute = "pending"
    /\ cmp' = [ cmp EXCEPT !.execute = Verdict(ExecutePassed(CmpResult, CmpTestCase)) ]
    /\ UNCHANGED << pc, route, req, rows, testCases, testResults, passedTests,
                    engine, calls, outcomes, updateData, dbWrite, res,
                    concurrentVars >>

\* the comparison of PUT /exam-attempts/:attemptId/finish
CompareInFinish ==
    /\ cmp # NoCmp
    /\ cmp.finish = "pending"
    /\ cmp' = [ cmp EXCEPT !.finish = Verdict(FinishPassed(CmpResult, CmpTestCase)) ]
    /\ UNCHANGED << pc, route, req, rows, testCases, testResults, passedTests,
                    engine, calls, outcomes, updateData, dbWrite, res,
                    concurrentVars >>

(***************************************************************************)
(* The execution sandbox behind executeCode, with the requests that call   *)
(* it concurrently: a /run, a single execution of /execute and a finish    *)
(* with a batch.  A request makes its calls one after the other (the       *)
(* awaits of /run and /execute, the for-of loop of finish); the calls of   *)
(* different requests overlap.  Every call passes the admission gate,      *)
(* runs one process in a working directory of its own under the timer and  *)
(* the memory ceiling, is torn down and then resolves.  Time is counted    *)
(* in steps of half the timeout; the grace period of a forced termination  *)
(* is one step (the engine's value is not known; any bounded one will do). *)
(***************************************************************************)
\* the grace period of a forced termination, and the step of the clock
GraceMs == Timeout \div 2

\* the requests served concurrently, and the executeCode calls each makes
Callers == { "run", "execute", "finish" }
CasesOf(c) == IF c = "finish" THEN MaxBatch ELSE 1

NoExec ==
    [ phase |-> "idle", done |-> 0, slot |-> FALSE, process |-> "none",
      workdir |-> FALSE, elapsed |-> 0, cause |-> "none", exitCode |-> NoExitCode ]

\* the ExecutionResult of a call that was stopped for e.cause
ResultOf(e) ==
    [ exitCode |-> e.exitCode,
      timedOut |-> e.cause = "timeout",
      memoryExceeded |-> e.cause = "memory",
      error |-> IF e.cause = "fault" THEN EngineFault
                ELSE IF e.cause = "exit" /\ e.exitCode = 0 THEN NULL
                ELSE << "E" >> ]

\* mutant of HasFreeSlot: the gate admits every call
AdmitsAll == TRUE

\* the gate has a free slot
HasFreeSlot == gate < MaxConcurrent

\* the request calls executeCode: for its first case when it arrives, for
\* the next case once the call before has resolved
Call(c) ==
    /\ execs[c].phase \in { "idle", "returned" }
    /\ execs[c].done < CasesOf(c)
    /\ execs' = [ execs EXCEPT ![c] = [ NoExec EXCEPT !.phase = "waiting",
                                                      !.done = execs[c].done ] ]
    /\ UNCHANGED << gate, outsideSandbox >>

\* a slot is acquired, then the working directory is made and the process
\* spawned with the timer armed; or the set-up fails, with or without a
\* working directory left behind
Admit(c) ==
    /\ execs[c].phase = "waiting"
    /\ HasFreeSlot
    /\ gate' = gate + 1
    /\ \/ execs' = [ execs EXCEPT ![c].phase = "running", ![c].slot = TRUE,
                                  ![c].process = "alive", ![c].workdir = TRUE ]
       \/ \E left \in BOOLEAN :
            execs' = [ execs EXCEPT ![c].phase = "stopped", ![c].slot = TRUE,
                                    ![c].cause = "fault", ![c].workdir = left ]
    /\ UNCHANGED outsideSandbox

\* The race is won by the process or by the memory watcher, or a fault
\* inside the engine ends the wait: natural completion with an exit code,
\* a memory breach (the process tree is killed), a fault (the process is
\* still there); after the termination signal, the process tree obeying it.
Ends(c) ==
    /\ \E end \in IF execs[c].phase = "running"
                  THEN { [ cause |-> "exit", exitCode |-> 0, process |-> "dead" ],
                         [ cause |-> "exit", exitCode |-> 1, process |-> "dead" ],
                         [ cause |-> "memory", exitCode |-> NoExitCode, process |-> "dead" ],
                         [ cause |-> "fault", exitCode |-> NoExitCode, process |-> "alive" ] }
                  ELSE IF execs[c].phase = "terminating"
                  THEN { [ cause |-> "timeout", exitCode |-> NoExitCode, process |-> "dead" ] }
                  ELSE { } :
        execs' = [ execs EXCEPT ![c].phase = "stopped", ![c].cause = end.cause,
                                ![c].exitCode = end.exitCode,
                                ![c].process = end.process, ![c].elapsed = 0 ]
    /\ UNCHANGED << gate, outsideSandbox >>

\* the timer fires: the process tree is told to terminate
TimerFires(c) ==
    /\ execs[c].phase = "running"
    /\ execs[c].elapsed >= Timeout
    /\ execs' = [ execs EXCEPT ![c].phase = "terminating", ![c].cause = "timeout" ]
    /\ UNCHANGED << gate, outsideSandbox >>

\* mutant of HardKill: a process that ignores the signal is left alone
NoHardKill(c) ==
    /\ execs[c].phase = "terminating"
    /\ UNCHANGED vars

\* the grace period is over: the non-ignorable kill
HardKill(c) ==
    /\ execs[c].phase = "terminating"
    /\ execs[c].elapsed >= Timeout + GraceMs
    /\ execs' = [ execs EXCEPT ![c].phase = "stopped", ![c].process = "dead",
                               ![c].elapsed = 0 ]
    /\ UNCHANGED << gate, outsideSandbox >>

\* mutant of Teardown: after a fault of the engine nothing is cleaned up
TeardownUnlessFault(c) ==
    /\ execs[c].phase = "stopped"
    /\ gate' = gate - 1
    /\ execs' = [ execs EXCEPT
                    ![c].phase = "settled", ![c].slot = FALSE,
                    ![c].process = IF execs[c].cause = "fault" THEN @ ELSE
                                   IF @ = "alive" THEN "dead" ELSE @,
                    ![c].workdir = execs[c].cause = "fault" /\ @ ]
    /\ UNCHANGED outsideSandbox

\* the teardown of every exit path: what is left of the process tree is
\* killed, the working directory is removed, the slot is released
Teardown(c) ==
    /\ execs[c].phase = "stopped"
    /\ gate' = gate - 1
    /\ execs' = [ execs EXCEPT
                    ![c].phase = "settled", ![c].slot = FALSE,
                    ![c].process = IF @ = "alive" THEN "dead" ELSE @,
                    ![c].workdir = FALSE ]
    /\ UNCHANGED outsideSandbox

\* executeCode resolves with the result
Return(c) ==
    /\ execs[c].phase = "settled"
    /\ execs' = [ execs EXCEPT ![c].phase = "returned", ![c].done = @ + 1 ]
    /\ UNCHANGED << gate, outsideSandbox >>

\* time passes for the running processes, no further than the next timer
\* (the timeout of a running process, the grace period of a signalled one)
Tick ==
    /\ \E c \in Callers : execs[c].phase \in { "running", "terminating" }
    /\ \A c \in Callers :
        /\ execs[c].phase = "running" => execs[c].elapsed < Timeout
        /\ execs[c].phase = "terminating" => execs[c].elapsed < Timeout + GraceMs
    /\ execs' = [ c \in Callers |->
                    IF execs[c].phase \in { "running", "terminating" }
                    THEN [ execs[c] EXCEPT !.elapsed = @ + GraceMs ]
                    ELSE execs[c] ]
    /\ UNCHANGED << gate, outsideSandbox >>

(***************************************************************************)
(* POST /exam-attempts/start, served to one student twice at once.  The    *)
(* table has the unique key (userId, examId, examWindowId) that findUnique *)
(* reads by: a create of a second row with a key is rejected.  Whether two *)
(* rows without a window (examWindowId null) have the same key is up to    *)
(* the database, as NULLs of a unique index are: such a create may be      *)
(* rejected or go through.  An examWindowId of 0 is the absent one: the    *)
(* handler tests it with if (examWindowId) and stores examWindowId || null.*)
(***************************************************************************)
Starters == { "a", "b" }

NoStart ==
    [ pc |-> "idle", examId |-> 1, userId |-> 1, examWindowId |-> 0,
      inscription |-> NoRow, now |-> 0, found |-> NoRow, created |-> FALSE,
      res |-> NoResponse ]

\* prisma.inscription.findUnique({ include: { examWindow: true } }): times are
\* milliseconds, a fechaInicio of 0 being new Date(null); duracion is in
\* minutes
Inscriptions ==
    [ found : { TRUE },
      examWindow : [ activa : BOOLEAN, sinTiempo : BOOLEAN,
                     estado : { "programada", "en_curso" },
                     fechaInicio : { 0, 120000 }, duracion : { 1 } ] ]

\* mutant of WindowOpen: the estado of a timed window is not looked at
WindowOpenAnyEstado(w, now) ==
    LET startDate == w.fechaInicio
        endDate == startDate + w.duracion * 60 * 1000
    IN  IF w.sinTiempo THEN w.activa
        ELSE ~(now < startDate \/ now > endDate)

\* the availability test of an active window
WindowOpen(w, now) ==
    LET startDate == w.fechaInicio
        endDate == startDate + w.duracion * 60 * 1000
    IN  IF w.sinTiempo THEN w.activa
        ELSE ~(w.estado # "en_curso" \/ now < startDate \/ now > endDate)

\* the rows of the key userId_examId_examWindowId
WithKey(q) ==
    { i \in DOMAIN attempts : /\ attempts[i].userId = q.userId
                              /\ attempts[i].examId = q.examId
                              /\ attempts[i].examWindowId = q.examWindowId }

\* res.status(status).json(b) of request r, whose handler is then over
StartRespond(r, q, status, b) ==
    starts' = [ starts EXCEPT ![r] = [ q EXCEPT !.pc = "done",
                                         !.res = [ status |-> status, body |-> b ] ] ]

\* the request arrives: the inscription is looked up if (examWindowId)
StartRequest(r) ==
    /\ starts[r].pc = "idle"
    /\ \E w \in { 0, 1 } :
        starts' = [ starts EXCEPT ![r].examWindowId = w,
                                  ![r].pc = IF w = 0 THEN "find" ELSE "inscription" ]
    /\ UNCHANGED << attempts, outsideStart >>

\* prisma.inscription.findUnique resolves: the checks of the window, at a
\* new Date() around the two ends of the window
StartInscriptionLoaded(r) ==
    /\ starts[r].pc = "inscription"
    /\ \E ins \in Inscriptions \cup { NoRow },
          now \in { 119999, 120000, 180000, 180001 } :
        LET q == [ starts[r] EXCEPT !.inscription = ins, !.now = now ]
        IN  IF ins = NoRow
            THEN StartRespond(r, q, 403, [ error |-> "No estas inscrito en esta ventana" ])
            ELSE IF ~ins.examWindow.activa
            THEN StartRespond(r, q, 403, [ error |-> "Esta ventana de examen ha sido desactivada por el profesor" ])
            ELSE IF ~WindowOpen(ins.examWindow, now)
            THEN StartRespond(r, q, 403, [ error |-> "El examen no esta disponible" ])
            ELSE starts' = [ starts EXCEPT ![r] = [ q EXCEPT !.pc = "find" ] ]
    /\ UNCHANGED << attempts, outsideStart >>

\* prisma.examAttempt.findUnique resolves: an existing attempt is answered
StartAttemptLoaded(r) ==
    /\ starts[r].pc = "find"
    /\ \E found \in { attempts[i] : i \in WithKey(starts[r]) }
                    \cup { row \in { NoRow } : WithKey(starts[r]) = { } } :
        LET q == [ starts[r] EXCEPT !.found = found ]
        IN  IF found # NoRow
            THEN StartRespond(r, q, 200, found)
            ELSE starts' = [ starts EXCEPT ![r] = [ q EXCEPT !.pc = "create" ] ]
    /\ UNCHANGED << attempts, outsideStart >>

\* prisma.examAttempt.create resolves with the new row, or is rejected for
\* the unique key
StartCreated(r) ==
    /\ starts[r].pc = "create"
    /\ LET q == starts[r]
           row == [ id |-> Len(attempts) + 1, userId |-> q.userId,
                    examId |-> q.examId, examWindowId |-> q.examWindowId,
                    respuestas |-> << >>, estado |-> "en_progreso" ]
       IN  \/ /\ WithKey(q) = { } \/ q.examWindowId = 0
              /\ attempts' = Append(attempts, row)
              /\ StartRespond(r, [ q EXCEPT !.created = TRUE ], 200, row)
           \/ /\ WithKey(q) # { }
              /\ StartRespond(r, q, 500, [ error |-> "Error iniciando intento de examen" ])
              /\ UNCHANGED attempts
    /\ UNCHANGED outsideStart

\* an awaited prisma call rejects: the handler's catch
StartFailed(r) ==
    /\ starts[r].pc \in { "inscription", "find", "create" }
    /\ StartRespond(r, starts[r], 500, [ error |-> "Error iniciando intento de examen" ])
    /\ UNCHANGED << attempts, outsideStart >>

(***************************************************************************)
(* POST /exams/:id/test-solution of a professor (req.user.userId 1)        *)
(***************************************************************************)
\* mutant of TestSolutionError: an exam without test cases is let through
TestSolutionErrorUnlessCases(exam, b, userId) ==
    IF exam = NoRow THEN [ status |-> 404, body |-> [ error |-> "Examen no encontrado" ] ]
    ELSE IF exam.profesorId # userId
    THEN [ status |-> 403, body |-> [ error |-> "No tienes permiso para ejecutar tests en este examen" ] ]
    ELSE IF exam.tipo # "programming"
    THEN [ status |-> 400, body |-> [ error |-> "Este examen no es de tipo programacion" ] ]
    ELSE IF exam.testCases = NoTestCases
    THEN [ status |-> 400, body |-> [ error |-> "El examen no tiene test cases configurados" ] ]
    ELSE IF b.useReferenceSolution /\ Falsy(exam.solucionReferencia)
    THEN [ status |-> 400, body |-> [ error |-> "El examen no tiene una solucion de referencia guardada" ] ]
    ELSE IF ~b.useReferenceSolution /\ Falsy(b.code)
    THEN [ status |-> 400, body |-> [ error |-> "Debe proporcionar codigo para ejecutar" ] ]
    ELSE NoResponse

\* the checks of the loaded exam, in the handler's order: the response of
\* the first that fails, NoResponse when the tests are to be run
TestSolutionError(exam, b, userId) ==
    IF exam = NoRow THEN [ status |-> 404, body |-> [ error |-> "Examen no encontrado" ] ]
    ELSE IF exam.profesorId # userId
    THEN [ status |-> 403, body |-> [ error |-> "No tienes permiso para ejecutar tests en este examen" ] ]
    ELSE IF exam.tipo # "programming"
    THEN [ status |-> 400, body |-> [ error |-> "Este examen no es de tipo programacion" ] ]
    ELSE IF exam.testCases = NoTestCases \/ Len(exam.testCases) = 0
    THEN [ status |-> 400, body |-> [ error |-> "El examen no tiene test cases configurados" ] ]
    ELSE IF b.useReferenceSolution /\ Falsy(exam.solucionReferencia)
    THEN [ status |-> 400, body |-> [ error |-> "El examen no tiene una solucion de referencia guardada" ] ]
    ELSE IF ~b.useReferenceSolution /\ Falsy(b.code)
    THEN [ status |-> 400, body |-> [ error |-> "Debe proporcionar codigo para ejecutar" ] ]
    ELSE NoResponse

\* the request arrives; idIsNaN is isNaN(parseInt(req.params.id))
TestSolutionRequest ==
    /\ pc = "idle"
    /\ \E b \in [ idIsNaN : BOOLEAN, userId : { 1 }, code : Codes,
                  useReferenceSolution : BOOLEAN ] :
        /\ route' = "test-solution"
        /\ req' = b
        /\ IF b.idIsNaN
           THEN Respond(400, [ error |-> "ID de examen invalido" ])
           ELSE pc' = "solution_exam" /\ UNCHANGED res
    /\ UNCHANGED << rows, testCases, testResults, passedTests, engine, calls,
                    outcomes, updateData, dbWrite, cmp, concurrentVars >>

\* prisma.exam.findUnique resolves: the checks, then runTests
TestSolutionExamLoaded ==
    /\ pc = "solution_exam"
    /\ \E e \in { NoRow } \cup
                [ found : { TRUE }, profesorId : { 1, 2 },
                  tipo : { "programming", "multiple_choice" },
                  lenguajeProgramacion : { "python" },
                  solucionReferencia : Codes,
                  testCases : { NoTestCases } \cup
                              UNION { [ 1..n -> TestCasePool ] : n \in 0..1 } ] :
        LET error == TestSolutionError(e, req, req.userId)
        IN  /\ rows' = [ exam |-> e ]
            /\ IF error # NoResponse
               THEN /\ Respond(error.status, error.body)
                    /\ UNCHANGED << engine, calls >>
               ELSE /\ pc' = "solution_exec"
                    /\ Invoke(RunTestsCall(
                          [ code |-> IF req.useReferenceSolution
                                     THEN e.solucionReferencia ELSE req.code,
                            language |-> e.lenguajeProgramacion,
                            testCases |-> e.testCases ]))
                    /\ UNCHANGED res
    /\ UNCHANGED << route, req, testCases, testResults, passedTests, outcomes,
                    updateData, dbWrite, cmp, concurrentVars >>

\* the awaited call settles: runTests resolves ({ success: true,
\* ...testResults }) or rejects, or the lookup of the exam rejects
TestSolutionSettled ==
    /\ \/ /\ pc = "solution_exec"
          /\ \E rs \in [ DOMAIN engine.testCases -> ExecutionResults ] :
              LET batch == RunTests(engine.testCases, rs)
              IN  /\ Settle(batch)
                  /\ Respond(200, [ success |-> TRUE, score |-> batch.score,
                                    passedTests |-> batch.passedTests,
                                    totalTests |-> batch.totalTests,
                                    testResults |-> batch.testResults ])
       \/ /\ pc = "solution_exec"
          /\ \E f \in Faults :
              /\ Settle(f)
              /\ Respond(500, [ error |-> "Error interno al ejecutar tests",
                                details |-> f.message ])
       \/ /\ pc = "solution_exam"
          /\ \E f \in Faults :
              Respond(500, [ error |-> "Error interno al ejecutar tests",
                             details |-> f.message ])
          /\ UNCHANGED << engine, outcomes >>
    /\ UNCHANGED << route, req, rows, testCases, testResults, passedTests,
                    calls, updateData, dbWrite, cmp, concurrentVars >>

(***************************************************************************)
(* The exam-file routes on exam 1, two requests served at once and         *)
(* interleaved at their awaits.  A row of examFile is files[id]; a deleted *)
(* row stays with stored FALSE, as ids are not given twice.  The table has *)
(* the unique key examId_userId_filename_version that the upsert names.    *)
(* touched holds the ids a request has read, written or deleted; fault is  *)
(* what its catch caught: "P2002" a create rejected for the unique key,    *)
(* "P2025" an update or delete of a row that is gone, "other" the rest.    *)
(***************************************************************************)
Savers == { "a", "b" }

\* mutant of Eligible: a cancelled inscription counts
EligibleThoughCancelled(inscriptions) ==
    \E ins \in inscriptions : ins.examId = 1 /\ ins.activa

\* prisma.inscription.findFirst({ where: { userId, examWindow: { examId,
\* activa: true }, cancelledAt: null } }) finds a row among the user's
Eligible(inscriptions) ==
    \E ins \in inscriptions : ins.examId = 1 /\ ins.activa /\ ~ins.cancelled

\* the stored rows of a key of the user
WithFileKey(userId, filename, version) ==
    { id \in DOMAIN files : /\ files[id].stored
                            /\ files[id].userId = userId
                            /\ files[id].filename = filename
                            /\ files[id].version = version }

\* for (const fileData of files) from entry i on: entries without filename
\* are skipped, the next one is looked up, after the last one the answer
SubmissionStep(q, i) ==
    LET named == { j \in i..Len(q.body) : q.body[j].filename # "" }
    IN  IF named = { }
        THEN [ q EXCEPT !.pc = "done", !.i = Len(q.body) + 1,
                 !.res = [ status |-> 200,
                           body |-> [ message |-> "Archivos guardados como version de envio" ] ] ]
        ELSE LET j == CHOOSE k \in named : \A l \in named : k <= l
             IN  [ q EXCEPT !.pc = "find", !.i = j, !.filename = q.body[j].filename,
                            !.version = "submission", !.content = q.body[j].content ]

\* the handler after the check of the inscription
FileProceed(q) ==
    IF q.op \in { "list", "get" } THEN [ q EXCEPT !.pc = "read" ]
    ELSE IF q.op = "save" THEN [ q EXCEPT !.pc = "upsert" ]
    ELSE IF q.op = "delete" THEN [ q EXCEPT !.pc = "find" ]
    ELSE SubmissionStep(q, 1)

\* a request arrives: the checks of its body, then the inscription of a
\* student is looked up.  inscriptions are the rows of the user.
FileRequest(r) ==
    /\ saves[r].pc = "idle"
    /\ \E op \in { "list", "get", "save", "delete", "submission" },
          rol \in { "student", "professor" },
          userId \in (IF r = "a" THEN { 1 } ELSE { 1, 2 }),
          filename \in { "", "main.py" },
          version \in { "manual", "submission" },
          content \in { NULL, << "c" >> },
          body \in { << >>,
                     << [ filename |-> "main.py", content |-> << "s" >> ] >>,
                     << [ filename |-> "", content |-> << "s" >> ],
                        [ filename |-> "main.py", content |-> NULL ] >> },
          isArray \in BOOLEAN,
          ins \in [ examId : { 1, 2 }, activa : BOOLEAN, cancelled : BOOLEAN ] :
        /\ op # "save" => filename = "main.py" /\ content = NULL
        /\ op = "submission" => version = "submission"
        /\ op # "submission" => body = << >> /\ isArray
        /\ ~isArray => body = << >>
        /\ rol = "professor" => ins = [ examId |-> 2, activa |-> FALSE, cancelled |-> TRUE ]
        /\ LET q == [ saves[r] EXCEPT
                        !.op = op, !.rol = rol, !.userId = userId,
                        !.filename = filename, !.version = version,
                        !.content = content, !.body = body, !.isArray = isArray,
                        !.inscriptions = IF rol = "professor" THEN { } ELSE { ins } ]
           IN  saves' = [ saves EXCEPT ![r] =
                 IF op = "save" /\ filename = ""
                 THEN [ q EXCEPT !.pc = "done",
                          !.res = [ status |-> 400, body |-> [ error |-> "Nombre de archivo requerido" ] ] ]
                 ELSE IF op = "submission" /\ ~isArray
                 THEN [ q EXCEPT !.pc = "done",
                          !.res = [ status |-> 400, body |-> [ error |-> "Se requiere un array de archivos" ] ] ]
                 ELSE IF rol = "student" THEN [ q EXCEPT !.pc = "inscription" ]
                 ELSE FileProceed(q) ]
    /\ UNCHANGED << files, outsideFiles >>

\* prisma.inscription.findFirst resolves
FileInscriptionLoaded(r) ==
    /\ saves[r].pc = "inscription"
    /\ saves' = [ saves EXCEPT ![r] =
          IF ~Eligible(saves[r].inscriptions)
          THEN [ saves[r] EXCEPT !.pc = "done",
                   !.res = [ status |-> 403,
                             body |-> [ error |-> "No estas inscrito en una ventana activa de este examen" ] ] ]
          ELSE FileProceed(saves[r]) ]
    /\ UNCHANGED << files, outsideFiles >>

\* GET /:examId/files and GET /:examId/files/:filename: findMany of the
\* user's files of the version, findFirst of the one file
FileRead(r) ==
    /\ saves[r].pc = "read"
    /\ LET q == saves[r]
           found == IF q.op = "list"
                    THEN { id \in DOMAIN files : /\ files[id].stored
                                                 /\ files[id].userId = q.userId
                                                 /\ files[id].version = q.version }
                    ELSE WithFileKey(q.userId, q.filename, q.version)
       IN  saves' = [ saves EXCEPT ![r] =
             IF q.op = "get" /\ found = { }
             THEN [ q EXCEPT !.pc = "done",
                      !.res = [ status |-> 404, body |-> [ error |-> "Archivo no encontrado" ] ] ]
             ELSE [ q EXCEPT !.pc = "done", !.touched = found,
                      !.res = [ status |-> 200, body |-> { files[id] : id \in found } ] ] ]
    /\ UNCHANGED << files, outsideFiles >>

\* POST /:examId/files: prisma.examFile.upsert, one operation of the
\* database, updates the row of the key or creates it
FileUpserted(r) ==
    /\ saves[r].pc = "upsert"
    /\ LET q == saves[r]
           key == WithFileKey(q.userId, q.filename, q.version)
           id == IF key = { } THEN Len(files) + 1 ELSE CHOOSE k \in key : TRUE
           row == [ examId |-> 1, userId |-> q.userId, filename |-> q.filename,
                    version |-> q.version, content |-> OrEmpty(q.content),
                    stored |-> TRUE ]
       IN  /\ files' = IF key = { } THEN Append(files, row)
                       ELSE [ files EXCEPT ![id].content = OrEmpty(q.content) ]
           /\ saves' = [ saves EXCEPT ![r] =
                 [ q EXCEPT !.pc = "done", !.touched = { id },
                            !.res = [ status |-> 200, body |-> row ] ] ]
    /\ UNCHANGED outsideFiles

\* prisma.examFile.findFirst of DELETE and of the submission loop resolves
FileFound(r) ==
    /\ saves[r].pc = "find"
    /\ LET q == saves[r]
           key == WithFileKey(q.userId, q.filename, q.version)
       IN  saves' = [ saves EXCEPT ![r] =
             IF key = { }
             THEN IF q.op = "delete"
                  THEN [ q EXCEPT !.pc = "done",
                           !.res = [ status |-> 404, body |-> [ error |-> "Archivo no encontrado" ] ] ]
                  ELSE [ q EXCEPT !.pc = "write", !.existing = 0 ]
             ELSE LET id == CHOOSE k \in key : TRUE
                  IN  [ q EXCEPT !.pc = IF q.op = "delete" THEN "delete" ELSE "write",
                                 !.existing = id, !.touched = @ \cup { id } ] ]
    /\ UNCHANGED << files, outsideFiles >>

\* prisma.examFile.delete({ where: { id: file.id } }) resolves, or rejects
\* when the row is gone
FileDeleted(r) ==
    /\ saves[r].pc = "delete"
    /\ LET q == saves[r]
       IN  IF files[q.existing].stored
           THEN /\ files' = [ files EXCEPT ![q.existing].stored = FALSE ]
                /\ saves' = [ saves EXCEPT ![r] =
                      [ q EXCEPT !.pc = "done",
                          !.res = [ status |-> 200,
                                    body |-> [ message |-> "Archivo eliminado correctamente" ] ] ] ]
           ELSE /\ saves' = [ saves EXCEPT ![r] =
                      [ q EXCEPT !.pc = "done", !.fault = "P2025",
                          !.res = [ status |-> 500, body |-> [ error |-> "Error eliminando archivo" ] ] ] ]
                /\ UNCHANGED files
    /\ UNCHANGED outsideFiles

\* the submission loop writes: update of the row found, which rejects when
\* the row is gone, or create, which rejects when the key is stored by now;
\* a rejection is the handler's catch
FileWritten(r) ==
    /\ saves[r].pc = "write"
    /\ LET q == saves[r]
           key == WithFileKey(q.userId, q.filename, "submission")
           row == [ examId |-> 1, userId |-> q.userId, filename |-> q.filename,
                    version |-> "submission", content |-> OrEmpty(q.content),
                    stored |-> TRUE ]
           rejected == [ q EXCEPT !.pc = "done",
                           !.fault = IF q.existing # 0 THEN "P2025" ELSE "P2002",
                           !.res = [ status |-> 500,
                                     body |-> [ error |-> "Error guardando archivos de envio" ] ] ]
       IN  IF q.existing # 0
           THEN IF files[q.existing].stored
                THEN /\ files' = [ files EXCEPT ![q.existing].content = OrEmpty(q.content) ]
                     /\ saves' = [ saves EXCEPT ![r] = SubmissionStep(q, q.i + 1) ]
                ELSE saves' = [ saves EXCEPT ![r] = rejected ] /\ UNCHANGED files
           ELSE IF key = { }
                THEN /\ files' = Append(files, row)
                     /\ saves' = [ saves EXCEPT ![r] =
                           SubmissionStep([ q EXCEPT !.touched = @ \cup { Len(files) + 1 } ],
                                          q.i + 1) ]
                ELSE saves' = [ saves EXCEPT ![r] = rejected ] /\ UNCHANGED files
    /\ UNCHANGED outsideFiles

\* an awaited prisma call rejects for a reason of the database: the catch
FileFailed(r) ==
    /\ saves[r].pc \in { "inscription", "read", "upsert", "find", "delete", "write" }
    /\ saves' = [ saves EXCEPT ![r] =
          [ saves[r] EXCEPT !.pc = "done", !.fault = "other",
              !.res = [ status |-> 500, body |-> [ error |-> "Error" ] ] ] ]
    /\ UNCHANGED << files, outsideFiles >>

(***************************************************************************)
(* POST /users/login, two requests side by side so that their responses    *)
(* can be compared.  The one registered user is a@b.com with the password  *)
(* "123"; a stored password is the bcrypt hash signup makes, written       *)
(* [ bcrypt |-> password ], and bcrypt.compare(password, hash) rejects     *)
(* when one of its arguments is not a string.                              *)
(***************************************************************************)
\* mutant of PasswordToCompare: no dummy hash for an unknown email
PasswordToCompareOfUser(user) ==
    IF user # NoRow THEN user.password ELSE [ bcrypt |-> EMPTY, missing |-> TRUE ]

\* const passwordToCompare = user ? user.password : dummyHash, the dummy
\* hash being the bcrypt of "dummy"
PasswordToCompare(user) ==
    IF user # NoRow THEN user.password
    ELSE [ bcrypt |-> << "d", "u", "m", "m", "y" >>, missing |-> FALSE ]

\* the request arrives; a password of NULL is one missing from the body
LoginRequest(r) ==
    /\ logins[r].pc = "idle"
    /\ \E email \in { "a@b.com", "no@b.com" },
          password \in { NULL, << "1", "2", "3" >>, << "b", "a", "d" >>,
                         << "d", "u", "m", "m", "y" >> } :
        logins' = [ logins EXCEPT ![r].pc = "find", ![r].email = email,
                                  ![r].password = password ]
    /\ UNCHANGED outsideLogin

\* prisma.user.findUnique({ where: { email } }) resolves with the user or
\* null and the comparison is started, or it rejects: the catch
LoginUserLoaded(r) ==
    /\ logins[r].pc = "find"
    /\ LET user == IF logins[r].email = "a@b.com"
                   THEN [ found |-> TRUE, id |-> 1, nombre |-> "Juan",
                          email |-> "a@b.com", rol |-> "student",
                          password |-> [ bcrypt |-> << "1", "2", "3" >>,
                                         missing |-> FALSE ] ]
                   ELSE NoRow
       IN  \/ logins' = [ logins EXCEPT ![r].pc = "compare", ![r].user = user,
                                        ![r].compared = PasswordToCompare(user) ]
           \/ logins' = [ logins EXCEPT ![r].pc = "done", ![r].fault = "findUnique",
                  ![r].res = [ status |-> 500,
                               body |-> [ error |-> "Hubo un problema al verificar las credenciales" ] ] ]
    /\ UNCHANGED outsideLogin

\* bcrypt.compare(password, passwordToCompare) resolves, or rejects for an
\* argument that is not a string; then 401 without telling why, or the token
LoginCompared(r) ==
    /\ logins[r].pc = "compare"
    /\ LET q == logins[r]
           isPasswordCorrect == q.compared.bcrypt = q.password
       IN  logins' = [ logins EXCEPT ![r] =
             IF q.password = NULL \/ q.compared.missing
             THEN [ q EXCEPT !.pc = "done", !.fault = "compare",
                      !.res = [ status |-> 500,
                                body |-> [ error |-> "Hubo un problema al verificar las credenciales" ] ] ]
             ELSE IF q.user = NoRow \/ ~isPasswordCorrect
             THEN [ q EXCEPT !.pc = "done",
                      !.res = [ status |-> 401,
                                body |-> [ error |-> "Credenciales invalidas" ] ] ]
             ELSE [ q EXCEPT !.pc = "done",
                      !.res = [ status |-> 200,
                                body |-> [ message |-> "Login exitoso",
                                           token |-> [ userId |-> q.user.id,
                                                       email |-> q.user.email,
                                                       nombre |-> q.user.nombre,
                                                       rol |-> q.user.rol ],
                                           user |-> [ userId |-> q.user.id,
                                                      nombre |-> q.user.nombre,
                                                      email |-> q.user.email,
                                                      rol |-> q.user.rol ] ] ] ] ]
    /\ UNCHANGED outsideLogin

(***************************************************************************)
(* POST /exams/create of a professor (userId 1), and the engine calls that *)
(* finish and test-solution make for an exam created that way.  A field   *)
(* the handler does not set is stored as null: "" for the language,        *)
(* NoTestCases for the test cases.                                         *)
(***************************************************************************)
\* mutant of CreateError: a language is required, any language
CreateErrorAnyLanguage(b) ==
    IF b.tipo = "programming" /\ b.lenguajeProgramacion = ""
    THEN [ status |-> 400, body |-> [ error |-> "Para examenes de programacion se requiere especificar el lenguaje (python o javascript)" ] ]
    ELSE IF b.tipo = "programming" /\ Falsy(b.enunciadoProgramacion)
    THEN [ status |-> 400, body |-> [ error |-> "Para examenes de programacion se requiere especificar el enunciado" ] ]
    ELSE IF b.tipo = "multiple_choice" /\ Len(b.preguntas) = 0
    THEN [ status |-> 400, body |-> [ error |-> "Para examenes de multiple choice se requieren preguntas" ] ]
    ELSE NoResponse

\* the validation of the body by type: the response of the check that
\* fails, NoResponse when the exam is to be created
CreateError(b) ==
    IF /\ b.tipo = "programming"
       /\ (b.lenguajeProgramacion = "" \/ b.lenguajeProgramacion \notin { "python", "javascript" })
    THEN [ status |-> 400, body |-> [ error |-> "Para examenes de programacion se requiere especificar el lenguaje (python o javascript)" ] ]
    ELSE IF b.tipo = "programming" /\ Falsy(b.enunciadoProgramacion)
    THEN [ status |-> 400, body |-> [ error |-> "Para examenes de programacion se requiere especificar el enunciado" ] ]
    ELSE IF b.tipo = "multiple_choice" /\ Len(b.preguntas) = 0
    THEN [ status |-> 400, body |-> [ error |-> "Para examenes de multiple choice se requieren preguntas" ] ]
    ELSE NoResponse

\* the handler of POST /exams/create: the body is refused, or
\* prisma.exam.create rejects, or the exam is stored and its reference files
\* are; when the storing of a reference file rejects the exam stays.  A
\* tipo of "other" is any that is neither of the two; the default of an
\* absent one is 'multiple_choice'.
ExamCreated ==
    /\ Len(exams) < MaxExams
    /\ \E b \in [ tipo : { "programming", "multiple_choice", "other" },
                  lenguajeProgramacion : Languages,
                  enunciadoProgramacion : { NULL, EMPTY, << "e" >> },
                  testCases : { NoTestCases, << CHOOSE tc \in TestCasePool : tc.input # NULL >> },
                  solucionReferencia : { NULL, << "p" >> },
                  preguntas : { << >>, << [ correcta |-> 0 ] >> },
                  referenceFiles : { << >>, << [ filename |-> "ref.py", content |-> << "p" >> ] >> } ] :
        LET programming == b.tipo = "programming"
            examen == [ found |-> TRUE, id |-> Len(exams) + 1, tipo |-> b.tipo,
                        profesorId |-> 1,
                        lenguajeProgramacion |-> IF programming THEN b.lenguajeProgramacion ELSE "",
                        enunciadoProgramacion |-> IF programming THEN b.enunciadoProgramacion ELSE NULL,
                        testCases |-> IF ~programming THEN NoTestCases
                                      ELSE IF b.testCases = NoTestCases THEN << >>
                                      ELSE b.testCases,
                        solucionReferencia |-> IF programming /\ ~Falsy(b.solucionReferencia)
                                               THEN b.solucionReferencia ELSE NULL,
                        preguntas |-> IF b.tipo = "multiple_choice" THEN b.preguntas ELSE << >> ]
            stored == [ i \in DOMAIN b.referenceFiles |->
                          [ examId |-> examen.id, userId |-> 1,
                            filename |-> b.referenceFiles[i].filename,
                            version |-> "reference_solution",
                            content |-> b.referenceFiles[i].content, stored |-> TRUE ] ]
            failed == [ status |-> 500, body |-> [ error |-> "No se pudo crear el examen" ] ]
        IN  IF CreateError(b) # NoResponse
            THEN res' = CreateError(b) /\ UNCHANGED << exams, files >>
            ELSE \/ res' = failed /\ UNCHANGED << exams, files >>
                 \/ /\ exams' = Append(exams, examen)
                    /\ \/ /\ files' = IF programming THEN files \o stored ELSE files
                          /\ res' = [ status |-> 201, body |-> examen ]
                       \/ /\ programming /\ Len(b.referenceFiles) > 0
                          /\ res' = failed
                          /\ UNCHANGED files
    /\ UNCHANGED << engine, outsideExams >>

\* the evaluation of finish calls the engine for a test case of a stored
\* programming exam, with the exam's language
ExamEvaluated ==
    /\ \E i \in DOMAIN exams, code \in { EMPTY, << "p" >> } :
        /\ exams[i].tipo = "programming"
        /\ HasTestCases(exams[i].testCases)
        /\ \E j \in DOMAIN exams[i].testCases :
            engine' = FinishCaseCall(code, exams[i], exams[i].testCases[j])
    /\ UNCHANGED << res, exams, files, outsideExams >>

\* test-solution calls runTests for a stored exam that passes its checks,
\* with the exam's language
ExamTested ==
    /\ \E i \in DOMAIN exams, b \in [ code : Codes, useReferenceSolution : BOOLEAN ] :
        /\ TestSolutionError(exams[i], b, 1) = NoResponse
        /\ engine' = RunTestsCall(
              [ code |-> IF b.useReferenceSolution
                         THEN exams[i].solucionReferencia ELSE b.code,
                language |-> exams[i].lenguajeProgramacion,
                testCases |-> exams[i].testCases ])
    /\ UNCHANGED << res, exams, files, outsideExams >>

(***************************************************************************)
(* The routes that answer with exam data: GET /exams/:examId,              *)
(* GET /exam-attempts/:attemptId/results and GET /exams/history/:userId.   *)
(* Each action is one handler served from arrival to response, the rows    *)
(* its awaited reads resolve with being drawn; view keeps the user of the  *)
(* token, the row read that carries the exam, and the response.  The exam  *)
(* read is exam 1 of professor 1 or 2;                                     *)
(* a field deleted from a response is a field the record does not have.    *)
(***************************************************************************)
\* the users of the tokens
Viewers ==
    { [ userId |-> 3, rol |-> "student" ], [ userId |-> 1, rol |-> "professor" ],
      [ userId |-> 2, rol |-> "professor" ], [ userId |-> 9, rol |-> "system" ] }

\* prisma.exam.findUnique / include: { exam: true }: the whole row
ExamRows ==
    [ found : { TRUE }, id : { 1 }, profesorId : { 1, 2 }, tipo : { "programming" },
      lenguajeProgramacion : { "python" }, solucionReferencia : { NULL, << "p" >> } ]

\* const examResponse = { ...exam }; if (exam.profesorId !== userId) delete
\* examResponse.solucionReferencia
ExamResponse(exam, userId) ==
    IF exam.profesorId # userId
    THEN [ f \in DOMAIN exam \ { "solucionReferencia" } |-> exam[f] ]
    ELSE exam

\* GET /exams/:examId.  A windowId of 0 is an absent one (!windowId).
ViewExam ==
    \E user \in Viewers, isNaNId \in BOOLEAN, windowId \in { 0, 1 },
       ins \in { NoRow } \cup
               [ found : { TRUE }, presente : BOOLEAN,
                 examWindow : [ examId : { 1, 2 }, requierePresente : BOOLEAN,
                                activa : BOOLEAN, sinTiempo : BOOLEAN,
                                estado : { "programada", "en_curso" },
                                fechaInicio : { 120000 }, duracion : { 1 } ] ],
       now \in { 119999, 120000, 180001 },
       exam \in { NoRow } \cup ExamRows,
       rejects \in BOOLEAN :
        LET w == ins.examWindow
            student == user.rol = "student"
            refused ==
                IF ~student THEN NoResponse
                ELSE IF windowId = 0
                THEN [ status |-> 400, body |-> [ code |-> "WINDOW_ID_REQUIRED" ] ]
                ELSE IF rejects
                THEN [ status |-> 500, body |-> [ error |-> "Error al obtener el examen" ] ]
                ELSE IF ins = NoRow
                THEN [ status |-> 403, body |-> [ code |-> "NOT_ENROLLED" ] ]
                ELSE IF w.examId # 1
                THEN [ status |-> 403, body |-> [ code |-> "EXAM_MISMATCH" ] ]
                ELSE IF w.requierePresente /\ ~ins.presente
                THEN [ status |-> 403, body |-> [ code |-> "NOT_ENABLED" ] ]
                ELSE IF ~w.activa
                THEN [ status |-> 403, body |-> [ code |-> "WINDOW_DEACTIVATED" ] ]
                ELSE IF w.sinTiempo /\ w.estado # "programada"
                THEN [ status |-> 403, body |-> [ code |-> "EXAM_NOT_AVAILABLE" ] ]
                ELSE IF /\ ~w.sinTiempo
                        /\ \/ w.estado # "en_curso"
                           \/ now < w.fechaInicio
                           \/ now > w.fechaInicio + w.duracion * 60 * 1000
                THEN [ status |-> 403, body |-> [ code |-> "EXAM_NOT_AVAILABLE" ] ]
                ELSE NoResponse
        IN  /\ view' =
                [ route |-> "exam", user |-> user,
                  read |-> IF isNaNId \/ refused # NoResponse \/ rejects
                           THEN NoRow ELSE exam,
                  res |->
                    IF isNaNId THEN [ status |-> 400, body |-> [ error |-> "examId invalido" ] ]
                    ELSE IF refused # NoResponse THEN refused
                    ELSE IF rejects
                    THEN [ status |-> 500, body |-> [ error |-> "Error al obtener el examen" ] ]
                    ELSE IF exam = NoRow
                    THEN [ status |-> 404, body |-> [ error |-> "Examen no encontrado" ] ]
                    ELSE IF user.rol = "professor" /\ exam.profesorId # user.userId
                    THEN [ status |-> 403, body |-> [ error |-> "No tienes permiso para ver este examen" ] ]
                    ELSE [ status |-> 200, body |-> ExamResponse(exam, user.userId) ] ]
            /\ UNCHANGED outsideView

\* GET /exam-attempts/:attemptId/results of a student: the attempt is read
\* with include: { exam: { include: { preguntas: true } } } and answered
\* whole, with the student's files
ViewResults ==
    \E user \in { v \in Viewers : v.rol = "student" }, isNaNId \in BOOLEAN,
       attempt \in { NoRow } \cup
                   [ found : { TRUE }, id : { 1 }, userId : { 3, 4 },
                     estado : { "en_progreso", "finalizado" }, puntaje : { 100 },
                     exam : ExamRows ],
       rejects \in BOOLEAN :
        /\ view' =
            [ route |-> "results", user |-> user,
              read |-> IF isNaNId \/ rejects THEN NoRow ELSE attempt,
              res |->
                IF isNaNId THEN [ status |-> 400, body |-> [ error |-> "ID de intento invalido" ] ]
                ELSE IF rejects
                THEN [ status |-> 500, body |-> [ error |-> "Error obteniendo resultados del intento" ] ]
                ELSE IF attempt = NoRow
                THEN [ status |-> 404, body |-> [ error |-> "Intento no encontrado" ] ]
                ELSE IF attempt.userId # user.userId
                THEN [ status |-> 403, body |-> [ error |-> "No autorizado para ver este intento" ] ]
                ELSE IF attempt.estado # "finalizado"
                THEN [ status |-> 403, body |-> [ error |-> "El intento debe estar finalizado para ver resultados" ] ]
                ELSE [ status |-> 200,
                       body |-> [ examFiles |-> { f \in { files[i] : i \in DOMAIN files } :
                                                    f.userId = user.userId } ]
                                @@ attempt ] ]
        /\ UNCHANGED outsideView

\* GET /exams/history/:userId: a student reads the own history, any other
\* role anybody's; the entries come with include: { exam: true }
ViewHistory ==
    \E user \in Viewers, isNaNId \in BOOLEAN, targetUserId \in { 3, 4 },
       history \in { << >> } \cup { << [ userId |-> 0, exam |-> e ] >> : e \in ExamRows },
       rejects \in BOOLEAN :
        /\ view' =
            [ route |-> "history", user |-> user,
              read |-> IF history = << >> THEN NoRow ELSE history[1],
              res |->
                IF isNaNId THEN [ status |-> 400, body |-> [ error |-> "userId invalido" ] ]
                ELSE IF user.rol = "student" /\ user.userId # targetUserId
                THEN [ status |-> 403, body |-> [ error |-> "No puedes ver el historial de otro usuario" ] ]
                ELSE IF rejects
                THEN [ status |-> 500, body |-> [ error |-> "Error al obtener historial" ] ]
                ELSE [ status |-> 200,
                       body |-> [ i \in DOMAIN history |->
                                    [ history[i] EXCEPT !.userId = targetUserId ] ] ] ]
        /\ UNCHANGED outsideView

(***************************************************************************)
(* Attempt 1 of student 3 on programming exam 1 of professor 1, and two    *)
(* requests on it served at once and interleaved at their awaits; each is  *)
(* a PUT /exam-attempts/:attemptId/finish or .../save-code of a student,   *)
(* a POST /exam-attempts/start of a student for exam 1 (whose inscription  *)
(* and window are in order; its checks are the steps of StartRequest and   *)
(* StartInscriptionLoaded), or a PUT /exam-attempts/:attemptId/manual-grade *)
(* of a professor.  attemptRow is the stored row of                        *)
(* the attempt.  A handler keeps the row findUnique gave it (read), data   *)
(* of its update, the number of test cases it has executed (ran), whether  *)
(* its update was applied (wrote) and what it was rejected for: "estado"   *)
(* the estado check, "exam" or "file" a missing exam or main file, "db" a  *)
(* rejected await, "other" the rest.  The instant new Date() gives a       *)
(* request is written as the name of the request; a puntaje or a           *)
(* testResults of null is [ null |-> TRUE ], a testResults array is        *)
(* [ array |-> its entries ]; a calificacionManual is a numeral, "" when   *)
(* the body has none.  The exam has one test case.                         *)
(***************************************************************************)
Handlers == { "a", "b" }

NoHandler ==
    [ pc |-> "idle", op |-> "none", userId |-> 0, attemptId |-> 0,
      codigoProgramacion |-> NULL, calificacionManual |-> "",
      read |-> NoRow, data |-> << >>, ran |-> 0, wrote |-> FALSE,
      rejected |-> "", res |-> NoResponse ]

\* the row POST /exam-attempts/start creates, before any code is saved
InProgress ==
    [ id |-> 1, userId |-> 3, examId |-> 1, estado |-> "en_progreso",
      codigoProgramacion |-> NULL, puntaje |-> [ null |-> TRUE ],
      testResults |-> [ null |-> TRUE ], finishedAt |-> "",
      calificacionManual |-> "",
      corregidoPor |-> 0, corregidoAt |-> "" ]

Rejection(status, text, why) ==
    [ status |-> status, error |-> text, rejected |-> why ]

\* mutant of AttemptCheck: finish does not compare the owner of the attempt
AttemptCheckAnyUser(h, attempt) ==
    IF h.op = "start"
    THEN Rejection(0, "", "")
    ELSE IF attempt = NoRow
    THEN Rejection(404, "Intento no encontrado", "other")
    ELSE IF h.op = "manual-grade"
    THEN IF attempt.exam.profesorId # h.userId
         THEN Rejection(403, "No autorizado para calificar este intento", "other")
         ELSE Rejection(0, "", "")
    ELSE IF h.op = "save-code" /\ attempt.userId # h.userId
    THEN Rejection(403, "No autorizado", "other")
    ELSE IF attempt.estado # "en_progreso"
    THEN Rejection(400, "El intento ya fue finalizado", "estado")
    ELSE IF h.op = "save-code" /\ attempt.exam.tipo # "programming"
    THEN Rejection(400, "Esta ruta es solo para examenes de programacion", "other")
    ELSE Rejection(0, "", "")

\* the checks a handler makes on the attempt findUnique gave it: the
\* rejection it answers with, of status 0 when the request passes them
AttemptCheck(h, attempt) ==
    IF h.op = "start"
    THEN Rejection(0, "", "")
    ELSE IF attempt = NoRow
    THEN Rejection(404, "Intento no encontrado", "other")
    ELSE IF h.op = "manual-grade"
    THEN IF attempt.exam.profesorId # h.userId
         THEN Rejection(403, "No autorizado para calificar este intento", "other")
         ELSE Rejection(0, "", "")
    ELSE IF attempt.userId # h.userId
    THEN Rejection(403, "No autorizado", "other")
    ELSE IF attempt.estado # "en_progreso"
    THEN Rejection(400, "El intento ya fue finalizado", "estado")
    ELSE IF h.op = "save-code" /\ attempt.exam.tipo # "programming"
    THEN Rejection(400, "Esta ruta es solo para examenes de programacion", "other")
    ELSE Rejection(0, "", "")

Rejected(h, x) ==
    [ h EXCEPT !.pc = "done", !.rejected = x.rejected,
               !.res = [ status |-> x.status, body |-> [ error |-> x.error ] ] ]

\* a request arrives with the token of a student (3 owns the attempt) or of
\* a professor (1 owns the exam); manual-grade answers a body without a
\* calificacionManual before it reads anything
AttemptRequest(r) ==
    /\ handlers[r].pc = "idle"
    /\ \E op \in { "start", "finish", "save-code", "manual-grade" },
          attemptId \in { 1, 2 },
          student \in { 3, 4 }, professor \in { 1, 2 },
          calificacionManual \in { "", "7" } :
        LET h == [ NoHandler EXCEPT
                     !.op = op,
                     !.attemptId = attemptId,
                     !.userId = IF op = "manual-grade" THEN professor ELSE student,
                     !.codigoProgramacion =
                         IF op = "save-code" THEN << "s", r >> ELSE NULL,
                     !.calificacionManual =
                         IF op = "manual-grade" THEN calificacionManual ELSE "" ]
        IN  handlers' = [ handlers EXCEPT ![r] =
              IF op = "manual-grade" /\ calificacionManual = ""
              THEN Rejected(h, Rejection(400, "Calificacion manual requerida", "other"))
              ELSE [ h EXCEPT !.pc = "read" ] ]
    /\ UNCHANGED << attemptRow, outsideAttempt >>

\* prisma.examAttempt.findUnique resolves with the row as it is stored now,
\* joined with its exam; the handler checks it and builds the data of its
\* update.  start answers with the attempt of its student when there is
\* one, and creates another row, with the next id, when there is none
AttemptLoaded(r) ==
    /\ handlers[r].pc = "read"
    /\ LET h == handlers[r]
           attempt == IF h.attemptId = attemptRow.id
                      THEN [ exam |-> [ id |-> 1, tipo |-> "programming",
                                        profesorId |-> 1 ] ] @@ attemptRow
                      ELSE NoRow
           x == AttemptCheck(h, attempt)
       IN  handlers' = [ handlers EXCEPT ![r] =
             IF h.op = "start"
             THEN [ h EXCEPT !.pc = "done", !.attemptId = 0,
                      !.read = IF h.userId = attemptRow.userId
                               THEN attemptRow ELSE NoRow,
                      !.res = [ status |-> 200,
                                body |-> IF h.userId = attemptRow.userId
                                         THEN attemptRow
                                         ELSE [ InProgress EXCEPT
                                                  !.id = attemptRow.id + 1,
                                                  !.userId = h.userId ] ] ]
             ELSE IF x.status # 0
             THEN [ Rejected(h, x) EXCEPT !.read = attempt ]
             ELSE IF h.op = "finish"
             THEN [ h EXCEPT !.pc = "evaluate", !.read = attempt,
                      !.data = [ finishedAt |-> r, estado |-> "finalizado" ] ]
             ELSE IF h.op = "save-code"
             THEN [ h EXCEPT !.pc = "update", !.read = attempt,
                      !.data = [ codigoProgramacion |-> h.codigoProgramacion ] ]
             ELSE [ h EXCEPT !.pc = "update", !.read = attempt,
                      !.data = [ calificacionManual |-> h.calificacionManual,
                                 corregidoPor |-> h.userId,
                                 corregidoAt |-> r ] ] ]
    /\ UNCHANGED << attemptRow, outsideAttempt >>

\* finish reads the exam and the main file the student saved and runs the
\* test case on it; these awaits neither read nor write the attempt, and
\* they are one step.  found is the last row that was there: none, the
\* exam, or the main file too
AttemptEvaluated(r) ==
    /\ handlers[r].pc = "evaluate"
    /\ \E found \in { "none", "exam", "file" }, content \in { NULL, << "p" >> },
          passed \in BOOLEAN :
        LET h == handlers[r]
            codigoParaEvaluar == OrEmpty(content)
        IN  handlers' = [ handlers EXCEPT ![r] =
              IF found = "none"
              THEN Rejected(h, Rejection(404, "Examen no encontrado", "exam"))
              ELSE IF found = "exam"
              THEN Rejected(h, Rejection(400,
                     "Debes guardar el archivo principal antes de finalizar el examen",
                     "file"))
              ELSE [ h EXCEPT !.pc = "update", !.ran = 1,
                       !.data = [ codigoProgramacion |-> codigoParaEvaluar,
                                  puntaje |-> Score(IF passed THEN 1 ELSE 0, 1),
                                  testResults |->
                                      [ array |-> << [ passed |-> passed ] >> ] ]
                                @@ h.data ] ]
    /\ UNCHANGED << attemptRow, outsideAttempt >>

\* prisma.examAttempt.update({ where: { id }, data }) resolves: the data is
\* written over the row as it is stored now, and the row is answered
AttemptUpdated(r) ==
    /\ handlers[r].pc = "update"
    /\ attemptRow' = handlers[r].data @@ attemptRow
    /\ handlers' = [ handlers EXCEPT ![r] =
         [ handlers[r] EXCEPT !.pc = "done", !.wrote = TRUE,
             !.res = [ status |-> 200, body |-> attemptRow' ] ] ]
    /\ UNCHANGED outsideAttempt

\* an await of the handler rejects: the catch answers 500
AttemptFailed(r) ==
    /\ handlers[r].pc \in { "read", "evaluate", "update" }
    /\ handlers' = [ handlers EXCEPT ![r] =
         Rejected(handlers[r],
           Rejection(500,
             CASE handlers[r].op = "finish" -> "Error finalizando intento de examen"
               [] handlers[r].op = "save-code" -> "Error guardando codigo"
               [] OTHER -> "Error actualizando calificacion manual",
             "db")) ]
    /\ UNCHANGED << attemptRow, outsideAttempt >>

Idle ==
    /\ pc = "idle"
    /\ route = "none"
    /\ req = NoRequest
    /\ rows = NoRows
    /\ testCases = << >>
    /\ testResults = << >>
    /\ passedTests = 0
    /\ engine = NoCall
    /\ calls = << >>
    /\ outcomes = << >>
    /\ updateData = NoWrite
    /\ dbWrite = NoWrite
    /\ res = NoResponse
    /\ gate = 0
    /\ execs = [ c \in Callers |-> NoExec ]
    /\ attempts = << >>
    /\ starts = [ r \in Starters |-> NoStart ]
    /\ files = << >>
    /\ saves = [ r \in Savers |->
                   [ pc |-> "idle", op |-> "none", rol |-> "none", userId |-> 0,
                     filename |-> "", version |-> "manual", content |-> NULL,
                     body |-> << >>, isArray |-> TRUE, i |-> 0, inscriptions |-> { },
                     existing |-> 0, touched |-> { }, fault |-> "none",
                     res |-> NoResponse ] ]
    /\ logins = [ r \in { "a", "b" } |->
                    [ pc |-> "idle", email |-> "", password |-> NULL, user |-> NoRow,
                      compared |-> [ bcrypt |-> EMPTY, missing |-> TRUE ],
                      fault |-> "none", res |-> NoResponse ] ]
    /\ exams = << >>
    /\ view = [ route |-> "none", user |-> [ userId |-> 0, rol |-> "none" ],
                read |-> NoRow, res |-> NoResponse ]
    /\ attemptRow = InProgress
    /\ handlers = [ r \in Handlers |-> NoHandler ]

Init ==
    /\ Idle
    /\ cmp = NoCmp

Next ==
    \/ RunRequest
    \/ RunExamLoaded
    \/ RunExecuted
    \/ RunFailed
    \/ RunLookupFailed
    \/ ValidateRequest
    \/ ValidateDone
    \/ ValidateFailed
    \/ ExecuteRequest
    \/ ExecuteSingleDone
    \/ ExecuteSingleFailed
    \/ ExecuteCaseDone
    \/ ExecuteCaseFaulted
    \/ FinishRequest
    \/ FinishAttemptLoaded
    \/ FinishExamLoaded
    \/ FinishFileLoaded
    \/ FinishCaseDone
    \/ FinishCaseFaulted
    \/ FinishPreguntasLoaded
    \/ FinishUpdated
    \/ FinishFailed
    \/ PreviewRequest
    \/ PreviewDone
    \/ PreviewFailed
    \/ TestSolutionRequest
    \/ TestSolutionExamLoaded
    \/ TestSolutionSettled

\* the routes, the engine resolving or rejecting as it may
Spec == Init /\ [][Next]_vars

NextEngine ==
    \/ RunRequest
    \/ RunExamLoaded
    \/ RunLookupFailed
    \/ RunSettled
    \/ ExecuteRequest
    \/ ExecuteSingleSettled
    \/ ExecuteCaseSettled

\* the ad-hoc routes over the engine of the spec
SpecEngine == Init /\ [][NextEngine]_vars

InitCompare ==
    /\ Idle
    /\ cmp \in ComparePairs

NextCompare ==
    \/ CompareInExecute
    \/ CompareInFinish

\* the output comparison alone
SpecCompare == InitCompare /\ [][NextCompare]_vars

NextSandbox ==
    \/ \E c \in Callers : Call(c)
    \/ \E c \in Callers : Admit(c)
    \/ \E c \in Callers : Ends(c)
    \/ \E c \in Callers : TimerFires(c)
    \/ \E c \in Callers : HardKill(c)
    \/ \E c \in Callers : Teardown(c)
    \/ \E c \in Callers : Return(c)
    \/ Tick

\* The sandbox under concurrent requests.  The event loop runs every
\* callback that is ready and the clock goes on: each step of the engine
\* and each next call of a request is taken once it stays enabled.  A
\* request need not arrive, and a program need not exit, breach its memory,
\* obey a signal or make the engine fail.
SpecSandbox ==
    /\ Init
    /\ [][NextSandbox]_vars
    /\ WF_vars(Tick)
    /\ \A c \in Callers :
        /\ WF_vars(execs[c].phase = "returned" /\ Call(c))
        /\ WF_vars(Admit(c))
        /\ WF_vars(TimerFires(c))
        /\ WF_vars(HardKill(c))
        /\ WF_vars(Teardown(c))
        /\ WF_vars(Return(c))
(***************************************************************************)
(* Properties.                                                             *)
(***************************************************************************)
\* a batch is being scored, or has been, by the route
ExecuteBatch == route = "execute" /\ testCases # << >>
FinishBatch == route = "finish" /\ testCases # << >>

\* the number of entries of `results` with passed = true
PassedCount(results) == Cardinality({ i \in DOMAIN results : results[i].passed })

\* the outputs are equal once trimmed, an absent one read as empty
TrimmedEqual(actual, expected) == Trim(OrEmpty(actual)) = Trim(OrEmpty(expected))

\* C1: in both batch scoring paths, a case is recorded as passed only if the
\* trimmed outputs are equal and the execution's exit code is 0.
C1_PassedOnlyOnMatchAndExitZero ==
    (ExecuteBatch \/ FinishBatch) =>
        \A i \in DOMAIN testResults :
            testResults[i].passed =>
                /\ outcomes[i].kind = "result"
                /\ outcomes[i].exitCode = 0
                /\ TrimmedEqual(outcomes[i].output, testCases[i].expectedOutput)

\* C2: a batch of N >= 1 test cases is answered with totalTests = N, N entries
\* and passedTests equal to the number of entries with passed = true, whatever
\* the executions return or throw.
C2_BatchCounts ==
    /\ ( /\ route = "execute"
         /\ pc = "done"
         /\ ~MissingCodeOrLanguage(req)
         /\ IsSupported(req.language)
         /\ ~HasCustomInput(req)
         /\ req.testCases # NoTestCases
         /\ Len(req.testCases) >= 1 )
       => /\ res.status = 200
          /\ res.body.totalTests = Len(req.testCases)
          /\ Len(res.body.testResults) = Len(req.testCases)
          /\ res.body.passedTests = PassedCount(res.body.testResults)
    /\ ExecuteBatch => passedTests = PassedCount(testResults)
    /\ FinishBatch => passedTests = PassedCount(testResults)
    /\ (FinishBatch /\ dbWrite # NoWrite)
       => /\ Len(dbWrite.data.testResults) = Len(rows.exam.testCases)
          /\ dbWrite.data.puntaje = Score(PassedCount(dbWrite.data.testResults),
                                          Len(rows.exam.testCases))

C2_Witness ==
    /\ ExecuteBatch
    /\ pc = "done"
    /\ res.status = 200
    /\ Len(req.testCases) = 3
    /\ res.body.totalTests = 3
    /\ res.body.passedTests = 1
    /\ \E i \in DOMAIN outcomes : outcomes[i].kind = "fault"

\* C3: a fault of one case does not abort the batch.  The faulted case has an
\* entry with passed = false and the fault's message as its error, every other
\* case has the entry its own execution result gives, and the batch ends with
\* one entry per case.
C3_FaultIsolated ==
    /\ (ExecuteBatch \/ FinishBatch) =>
        /\ Len(testResults) = Len(outcomes)
        /\ \A i \in DOMAIN testResults :
            IF outcomes[i].kind = "fault"
            THEN /\ testResults[i].passed = FALSE
                 /\ ~Falsy(outcomes[i].message)
                        => testResults[i].error = outcomes[i].message
            ELSE testResults[i] =
                    IF route = "execute"
                    THEN ExecuteEntry(testCases[i], outcomes[i])
                    ELSE FinishEntry(testCases[i], outcomes[i])
    /\ (ExecuteBatch /\ pc = "done")
        => /\ res.status = 200
           /\ Len(res.body.testResults) = Len(testCases)
           /\ Len(calls) = Len(testCases)
    /\ (FinishBatch /\ pc \in { "finish_update", "done" })
        => /\ Len(updateData.testResults) = Len(testCases)
           /\ Len(calls) = Len(testCases)

C3_Witness ==
    /\ ExecuteBatch
    /\ pc = "done"
    /\ Len(testCases) = 3
    /\ outcomes[1].kind = "result"
    /\ outcomes[2].kind = "fault"
    /\ outcomes[2].message = << "F" >>
    /\ outcomes[3].kind = "result"
    /\ res.body.testResults[2].passed = FALSE
    /\ res.body.testResults[2].error = << "F" >>
    /\ res.body.testResults[3].passed = TRUE
\* the fields of a well-formed ExecutionResult
ResultFields == { "kind", "output", "error", "exitCode", "executionTime" }

C5_UnsupportedLanguageRejected ==
    ( /\ route \in { "run", "execute", "validate", "preview" }
      /\ ~IsSupported(req.language) )
    => /\ pc = "done"
       /\ res.status = 400
       /\ calls = << >>

\* C6: in POST /run, /validate and /execute a request without code or without
\* language is answered 400 before any engine operation, and nothing is read
\* or written.
C6_MissingCodeOrLanguageRejected ==
    ( /\ route \in { "run", "validate", "execute" }
      /\ (Falsy(req.code) \/ req.language = "") )
    => /\ pc = "done"
       /\ res.status = 400
       /\ res.body = RequiredError
       /\ calls = << >>
       /\ engine = NoCall
       /\ outcomes = << >>
       /\ rows = NoRows
       /\ dbWrite = NoWrite

\* a request with code and without language has been answered
C6_Witness ==
    /\ route = "validate"
    /\ req.code = << "p" >>
    /\ req.language = ""
    /\ pc = "done"
    /\ res.status = 400
    /\ calls = << >>

\* C7: empty code is executed like any other code: in POST /run, in
\* POST /execute and in the evaluation of finish, an otherwise valid request
\* whose code is the empty string reaches executeCode with that code.
C7_EmptyCodeExecuted ==
    /\ ( /\ route \in { "run", "execute" }
         /\ req.code = EMPTY
         /\ IsSupported(req.language)
         /\ route = "run" => req.examId = 0 )
       => /\ calls # << >>
          /\ calls[1].code = EMPTY
          /\ pc = "done" => res.status # 400
    /\ ( /\ FinishBatch
         /\ rows.mainFile.content = EMPTY )
       => /\ calls # << >>
          /\ calls[1].code = EMPTY
\* the entry of test case i of a batch, as the route builds it from outcome i
EntryOf(i) ==
    IF outcomes[i].kind = "result"
    THEN IF route = "execute" THEN ExecuteEntry(testCases[i], outcomes[i])
                              ELSE FinishEntry(testCases[i], outcomes[i])
    ELSE IF route = "execute" THEN ExecuteFaultEntry(testCases[i], outcomes[i])
                              ELSE FinishFaultEntry(testCases[i], outcomes[i])

\* the entries a finished batch reports
Reported ==
    IF route = "execute" THEN res.body.testResults ELSE dbWrite.data.testResults

BatchReported ==
    \/ ExecuteBatch /\ pc = "done" /\ res.status = 200
    \/ FinishBatch /\ dbWrite # NoWrite

\* C8: the entries of a batch are in the order of the test cases: entry i
\* comes from the i-th execution, which was given test case i's input, be the
\* outcome a result or a fault, in POST /execute and in finish.
C8_EntriesInInputOrder ==
    /\ (ExecuteBatch \/ FinishBatch) =>
        /\ Len(testResults) = Len(outcomes)
        /\ Len(testResults) <= Len(testCases)
        /\ \A i \in DOMAIN testResults :
            /\ calls[i].options.input = OrEmpty(testCases[i].input)
            /\ testResults[i] = EntryOf(i)
    /\ BatchReported =>
        /\ Reported = testResults
        /\ Len(Reported) = Len(testCases)

\* a reported batch of three cases, the first unlike the other two, with a
\* fault in the second
C8_Witness ==
    /\ BatchReported
    /\ route = "finish"
    /\ Len(testCases) = 3
    /\ testCases[1] # testCases[2]
    /\ testCases[2] = testCases[3]
    /\ outcomes[2].kind = "fault"
    /\ outcomes[3].kind = "result"
    /\ Reported[1].description = << "d" >>
    /\ Reported[3].passed

\* C9: a score is reported only for a batch with at least one test case, once
\* all its cases have finished; it is passedTests / totalTests * 100, between
\* 0 and 100; an empty or absent list gives no score (POST /execute) and no
\* puntaje from test cases (finish).
C9_ScoreDefined ==
    /\ (route = "execute" /\ pc = "done" /\ res.status = 200) =>
        IF "score" \in DOMAIN res.body
        THEN /\ HasTestCases(req.testCases)
             /\ res.body.score.den = Len(req.testCases)
             /\ res.body.score.den > 0
             /\ res.body.score.num = 100 * PassedCount(res.body.testResults)
             /\ res.body.score.num >= 0
             /\ res.body.score.num <= 100 * res.body.score.den
             /\ Len(outcomes) = Len(req.testCases)
             /\ engine = NoCall
        ELSE ~HasTestCases(req.testCases) \/ HasCustomInput(req)
    /\ (route = "finish" /\ "mainFile" \in DOMAIN rows /\ rows.mainFile # NoRow) =>
        IF "puntaje" \in DOMAIN updateData
        THEN /\ HasTestCases(rows.exam.testCases)
             /\ updateData.puntaje.den = Len(rows.exam.testCases)
             /\ updateData.puntaje.den > 0
             /\ updateData.puntaje.num = 100 * PassedCount(updateData.testResults)
             /\ updateData.puntaje.num >= 0
             /\ updateData.puntaje.num <= 100 * updateData.puntaje.den
             /\ Len(outcomes) = Len(rows.exam.testCases)
             /\ engine = NoCall
        ELSE \/ ~HasTestCases(rows.exam.testCases)
             \/ pc = "finish_case"
    /\ (route = "finish" /\ dbWrite # NoWrite /\ "puntaje" \in DOMAIN dbWrite.data) =>
        /\ dbWrite.data.puntaje.den > 0
        /\ dbWrite.data.puntaje.num >= 0
        /\ dbWrite.data.puntaje.num <= 100 * dbWrite.data.puntaje.den

\* two of three cases passed: the puntaje stored is 200/3
C9_Witness ==
    /\ route = "finish"
    /\ dbWrite # NoWrite
    /\ "testResults" \in DOMAIN dbWrite.data
    /\ dbWrite.data.puntaje = [ num |-> 200, den |-> 3 ]

\* an empty list of test cases has been answered without a score
C9_WitnessEmpty ==
    /\ route = "execute"
    /\ pc = "done"
    /\ res.status = 200
    /\ req.testCases = << >>
    /\ "score" \notin DOMAIN res.body

\* C10: the comparison trims both outputs and requires equality: the verdict
\* of POST /execute and the verdict of finish for the same pair (actual,
\* expected) of an execution that exited with 0 are the same, a missing value
\* included, and are "passed" exactly when the trimmed texts are equal.
C10_SameTrimmedComparison ==
    ( /\ cmp # NoCmp
      /\ cmp.exitCode = 0
      /\ cmp.execute # "pending"
      /\ cmp.finish # "pending" )
    => /\ cmp.execute = cmp.finish
       /\ cmp.finish = Verdict(TrimmedEqual(cmp.actual, cmp.expected))
NextStart ==
    \/ \E r \in Starters : StartRequest(r)
    \/ \E r \in Starters : StartInscriptionLoaded(r)
    \/ \E r \in Starters : StartAttemptLoaded(r)
    \/ \E r \in Starters : StartCreated(r)
    \/ \E r \in Starters : StartFailed(r)

\* two POST /exam-attempts/start of one student, interleaved at their awaits
SpecStart == Init /\ [][NextStart]_vars

NextFiles ==
    \/ \E r \in Savers : FileRequest(r)
    \/ \E r \in Savers : FileInscriptionLoaded(r)
    \/ \E r \in Savers : FileRead(r)
    \/ \E r \in Savers : FileUpserted(r)
    \/ \E r \in Savers : FileFound(r)
    \/ \E r \in Savers : FileDeleted(r)
    \/ \E r \in Savers : FileWritten(r)
    \/ \E r \in Savers : FileFailed(r)

\* two exam-file requests, interleaved at their awaits
SpecFiles == Init /\ [][NextFiles]_vars

NextLogin ==
    \/ \E r \in DOMAIN logins : LoginRequest(r)
    \/ \E r \in DOMAIN logins : LoginUserLoaded(r)
    \/ \E r \in DOMAIN logins : LoginCompared(r)

\* two logins, each served on its own
SpecLogin == Init /\ [][NextLogin]_vars

NextExams ==
    \/ ExamCreated
    \/ ExamEvaluated
    \/ ExamTested

\* exams are created, and evaluated or tested afterwards
SpecExams == Init /\ [][NextExams]_vars

NextView ==
    \/ ViewExam
    \/ ViewResults
    \/ ViewHistory

\* requests that read exam data, one after the other
SpecView == Init /\ [][NextView]_vars

NextAttempt ==
    \/ \E r \in Handlers : AttemptRequest(r)
    \/ \E r \in Handlers : AttemptLoaded(r)
    \/ \E r \in Handlers : AttemptEvaluated(r)
    \/ \E r \in Handlers : AttemptUpdated(r)
    \/ \E r \in Handlers : AttemptFailed(r)

SpecAttempt == Init /\ [][NextAttempt]_vars

\* the calls that hold a slot; the calls whose process or directory exists
Holders == { c \in Callers : execs[c].slot }
InFlight == { c \in Callers : execs[c].process = "alive" \/ execs[c].workdir }

C12_TimeoutBounded ==
    /\ [](\A c \in Callers :
            /\ execs[c].phase \in { "running", "terminating" }
                => execs[c].elapsed <= Timeout + GraceMs
            /\ execs[c].phase = "running" => execs[c].elapsed <= Timeout
            /\ execs[c].cause = "timeout"
                => /\ ResultOf(execs[c]).timedOut
                   /\ ResultOf(execs[c]).exitCode = NoExitCode)
    /\ \A c \in Callers :
        /\ execs[c].phase = "waiting" ~> execs[c].phase = "returned"
        /\ execs[c].phase = "waiting"
            ~> (execs[c].phase = "returned" /\ execs[c].done = CasesOf(c))

\* a call whose process ignored the termination signal has resolved after
\* the kill, as timed out
C12_Witness ==
    /\ execs["finish"].phase = "returned"
    /\ execs["finish"].done = CasesOf("finish")
    /\ execs["finish"].cause = "timeout"
    /\ ResultOf(execs["finish"]).timedOut
    /\ execs["run"].phase = "terminating"
    /\ execs["run"].elapsed = Timeout + GraceMs

\* C13: on every exit path the process is dead and the working directory
\* removed before the result exists: no call is settled or resolved while
\* its process is alive, its directory exists or it holds its slot.
C13_TornDownBeforeResult ==
    \A c \in Callers :
        execs[c].phase \in { "settled", "returned" }
            => /\ execs[c].process # "alive"
               /\ ~execs[c].workdir
               /\ ~execs[c].slot
               /\ execs[c].cause \in { "exit", "timeout", "memory", "fault" }

\* results of a timeout, of a fault of the engine and of a memory breach
\* have been delivered
C13_Witness ==
    /\ execs["run"].phase = "returned" /\ execs["run"].cause = "timeout"
    /\ execs["execute"].phase = "returned" /\ execs["execute"].cause = "fault"
    /\ execs["finish"].phase = "returned" /\ execs["finish"].cause = "memory"
\* C14: a batch of N test cases makes exactly N executeCode calls, one per
\* case and in their order: call i has the code and the language of the
\* request (of the saved main file and the exam, in finish), the timeout of
\* the route, and as input the input of case i, or the empty string when the
\* case has none; no call is made twice and none is left out.
C14_OneCallPerCase ==
    /\ (ExecuteBatch \/ FinishBatch) =>
        /\ Len(calls) = Len(outcomes) + (IF engine = NoCall THEN 0 ELSE 1)
        /\ Len(calls) <= Len(testCases)
        /\ \A i \in DOMAIN calls :
            /\ calls[i].op = "executeCode"
            /\ calls[i].options.input = OrEmpty(testCases[i].input)
            /\ calls[i].options.input # NULL
            /\ calls[i].options.timeout = Timeout
            /\ IF route = "execute"
               THEN /\ calls[i].code = req.code
                    /\ calls[i].language = req.language
               ELSE /\ calls[i].code = OrEmpty(rows.mainFile.content)
                    /\ calls[i].language = rows.exam.lenguajeProgramacion
    /\ BatchReported => Len(calls) = Len(testCases)

\* a reported batch of three cases, of which the second has no input
C14_Witness ==
    /\ ExecuteBatch
    /\ BatchReported
    /\ Len(testCases) = 3
    /\ Len(calls) = 3
    /\ testCases[2].input = NULL
    /\ calls[1].options.input = << "i" >>
    /\ calls[2].options.input = EMPTY

\* C15: a valid POST /execute runs in exactly one mode.  With a customInput
\* that is neither undefined nor null (the empty string is one) it makes one
\* execution with that input and leaves the test cases alone; otherwise,
\* with a non-empty array of test cases, it runs the batch; otherwise it
\* makes one execution with the empty input.
C15_ExactlyOneMode ==
    ( /\ route = "execute"
      /\ ~Falsy(req.code)
      /\ req.language \in SupportedLanguages )
    => IF req.customInput # NULL
       THEN /\ Len(calls) = 1
            /\ calls[1].options.input = req.customInput
            /\ testCases = << >> /\ testResults = << >>
            /\ pc = "done" /\ res.status = 200 => "testResults" \notin DOMAIN res.body
       ELSE IF req.testCases # NoTestCases /\ Len(req.testCases) > 0
       THEN /\ testCases = req.testCases
            /\ Len(calls) >= 1 /\ Len(calls) <= Len(req.testCases)
            /\ pc = "done" => /\ res.status = 200
                              /\ Len(calls) = Len(req.testCases)
                              /\ Len(res.body.testResults) = Len(req.testCases)
       ELSE /\ Len(calls) = 1
            /\ calls[1].options.input = EMPTY
            /\ testCases = << >> /\ testResults = << >>
            /\ pc = "done" /\ res.status = 200 => "testResults" \notin DOMAIN res.body

\* an empty customInput next to three test cases: one execution, no batch
C15_Witness ==
    /\ route = "execute"
    /\ pc = "done"
    /\ res.status = 200
    /\ req.customInput = EMPTY
    /\ req.testCases # NoTestCases
    /\ Len(req.testCases) = 3
    /\ Len(calls) = 1
    /\ calls[1].options.input = EMPTY
    /\ "score" \notin DOMAIN res.body
\* the attempts of a key (userId, examId, examWindowId)
AttemptsOf(u, e, w) ==
    { i \in DOMAIN attempts : /\ attempts[i].userId = u
                              /\ attempts[i].examId = e
                              /\ attempts[i].examWindowId = w }

\* C16: POST /exam-attempts/start is idempotent per (userId, examId,
\* examWindowId): a request that finds an attempt of its key answers with it
\* and creates none; whatever the interleaving of the requests, no key has
\* more than one attempt; every attempt created is "en_progreso" with empty
\* respuestas.
C16_StartIdempotent ==
    /\ \A r \in Starters :
        starts[r].found # NoRow
            => /\ ~starts[r].created
               /\ starts[r].res = [ status |-> 200, body |-> starts[r].found ]
    /\ \A i \in DOMAIN attempts :
        /\ attempts[i].estado = "en_progreso"
        /\ attempts[i].respuestas = << >>
        /\ Cardinality(AttemptsOf(attempts[i].userId, attempts[i].examId,
                                  attempts[i].examWindowId)) <= 1

\* C17: a start that names a window creates no attempt and answers 403 when
\* the student has no inscription in it, when the window is not active, and
\* when the window is timed and is not "en_curso" with the current time
\* inside [fechaInicio, fechaInicio + duracion minutes]; a window without
\* time limit only has to be active.
C17_StartNeedsOpenWindow ==
    \A r \in Starters :
        LET q == starts[r]
            w == q.inscription.examWindow
        IN  (q.examWindowId # 0 /\ q.pc \notin { "idle", "inscription" }
             /\ q.now # 0)
            => IF \/ q.inscription = NoRow
                  \/ ~w.activa
                  \/ /\ ~w.sinTiempo
                     /\ ~( /\ w.estado = "en_curso"
                           /\ w.fechaInicio <= q.now
                           /\ q.now <= w.fechaInicio + w.duracion * 60000 )
               THEN /\ q.pc = "done"
                    /\ q.res.status = 403
                    /\ ~q.created
                    /\ q.found = NoRow
               ELSE q.res.status # 403

\* a timed window "en_curso" one millisecond after its end is refused, while
\* the other request, in an open window without time limit, has its attempt
C17_Witness ==
    /\ starts["a"].res.status = 403
    /\ starts["a"].inscription # NoRow
    /\ starts["a"].inscription.examWindow.activa
    /\ ~starts["a"].inscription.examWindow.sinTiempo
    /\ starts["a"].inscription.examWindow.estado = "en_curso"
    /\ starts["a"].inscription.examWindow.fechaInicio = 120000
    /\ starts["a"].now = 180001
    /\ starts["b"].created
    /\ starts["b"].inscription # NoRow
    /\ starts["b"].inscription.examWindow.sinTiempo
    /\ starts["b"].inscription.examWindow.estado = "programada"
    /\ Len(attempts) = 1
\* C18: the two test-solution routes call runTests only when every
\* precondition holds, with the stored reference solution or the given code
\* and with a non-empty list of test cases; a request that fails a
\* precondition is answered with an error status and makes no call.
C18_TestsRunOnlyWhenReady ==
    route \in { "test-solution", "preview" } =>
        LET exam == rows.exam
            ready ==
                IF route = "test-solution"
                THEN /\ ~req.idIsNaN
                     /\ rows # NoRows
                     /\ exam # NoRow
                     /\ exam.profesorId = req.userId
                     /\ exam.tipo = "programming"
                     /\ exam.testCases # NoTestCases
                     /\ Len(exam.testCases) > 0
                     /\ IF req.useReferenceSolution
                        THEN exam.solucionReferencia \notin { NULL, EMPTY }
                        ELSE req.code \notin { NULL, EMPTY }
                ELSE /\ req.code \notin { NULL, EMPTY }
                     /\ req.language \in { "python", "javascript" }
                     /\ req.testCases # NoTestCases
                     /\ Len(req.testCases) > 0
        IN  /\ Len(calls) <= 1
            /\ \A i \in DOMAIN calls :
                /\ ready
                /\ calls[i].op = "runTests"
                /\ calls[i].testCases # NoTestCases
                /\ Len(calls[i].testCases) > 0
                /\ calls[i].testCases = IF route = "preview" THEN req.testCases
                                        ELSE exam.testCases
                /\ calls[i].code = IF route = "preview" THEN req.code
                                   ELSE IF req.useReferenceSolution
                                   THEN exam.solucionReferencia ELSE req.code
            /\ (pc = "done" /\ calls = << >>) => res.status \in { 400, 403, 404, 500 }
            /\ (pc = "done" /\ res.status # 500) => (ready <=> calls # << >>)

\* the reference solution of the professor's own exam was run on its test
\* case and the results were answered
C18_Witness ==
    /\ route = "test-solution"
    /\ req.useReferenceSolution
    /\ req.code = NULL
    /\ Len(calls) = 1
    /\ calls[1].code = << "p" >>
    /\ Len(calls[1].testCases) = 1
    /\ pc = "done"
    /\ res.status = 200

\* the preview ran the given code on the given test cases
C18_WitnessPreview ==
    /\ route = "preview"
    /\ Len(calls) = 1
    /\ calls[1].op = "runTests"
    /\ Len(calls[1].testCases) = MaxCases
    /\ pc = "done"
    /\ res.status = 200
\* the student of request q has no inscription that is not cancelled in an
\* active window of exam 1
Uninscribed(q) ==
    /\ q.rol = "student"
    /\ ~\E ins \in q.inscriptions : ins.examId = 1 /\ ins.activa /\ ~ins.cancelled

\* every file a request has read, written or deleted is the requesting
\* user's
OwnFilesOnly ==
    \A r \in Savers : \A id \in saves[r].touched : files[id].userId = saves[r].userId

\* C19 as stated: every exam-file operation of a student without a
\* non-cancelled inscription in an active window of the exam is rejected
\* with 403 and touches no file; every file touched is the requesting user's.
C19_UninscribedGet403 ==
    /\ OwnFilesOnly
    /\ \A r \in Savers :
        Uninscribed(saves[r])
            => /\ saves[r].touched = { }
               /\ saves[r].pc = "done" => saves[r].res.status = 403

\* C19, amended: such an operation touches no file and is rejected, with 403
\* unless it is a save without filename or a submission without an array of
\* files, which are rejected with 400 before the inscription is looked up,
\* or the lookup of the inscription itself fails, which answers 500; every
\* file touched is the requesting user's.
C19_UninscribedRejected ==
    /\ OwnFilesOnly
    /\ \A r \in Savers :
        LET q == saves[r]
        IN  Uninscribed(q)
            => /\ q.touched = { }
               /\ q.pc \in { "inscription", "done" }
               /\ q.pc = "done"
                   => IF q.op = "save" /\ q.filename = "" THEN q.res.status = 400
                      ELSE IF q.op = "submission" /\ ~q.isArray THEN q.res.status = 400
                      ELSE \/ q.res.status = 403
                           \/ q.res.status = 500 /\ q.fault = "other"

\* a student whose inscription is cancelled is refused the deletion of a
\* file that is stored under the student's id
C19_Witness ==
    /\ saves["a"].op = "delete"
    /\ saves["a"].rol = "student"
    /\ \E ins \in saves["a"].inscriptions : ins.examId = 1 /\ ins.activa /\ ins.cancelled
    /\ saves["a"].res.status = 403
    /\ WithFileKey(1, "main.py", saves["a"].version) # { }

\* request q saves the file "main.py" of version "submission", and is let to
SavesKey(q) ==
    /\ ~Uninscribed(q)
    /\ \/ q.op = "save" /\ q.filename = "main.py" /\ q.version = "submission"
       \/ /\ q.op = "submission"
          /\ q.isArray
          /\ \E j \in DOMAIN q.body : q.body[j].filename = "main.py"

\* C20: when concurrent saves of one (examId, userId, filename, version) are
\* over, the key has exactly one stored file, whose content is that of one
\* of the requests, and every request has succeeded, unless the database
\* failed for a reason of its own.
C20_ConcurrentSavesSucceed ==
    \A r1, r2 \in Savers :
        LET q1 == saves[r1]
            q2 == saves[r2]
            key == WithFileKey(q1.userId, "main.py", "submission")
        IN  ( /\ r1 # r2
              /\ q1.userId = q2.userId
              /\ SavesKey(q1) /\ SavesKey(q2)
              /\ q1.pc = "done" /\ q2.pc = "done"
              /\ q1.fault # "other" /\ q2.fault # "other" )
            => /\ q1.res.status = 200
               /\ q2.res.status = 200
               /\ Cardinality(key) = 1
               /\ \A id \in key :
                    files[id].content \in
                        { OrEmpty(q.content) : q \in { x \in { q1, q2 } : x.op = "save" } }
                        \cup UNION { { OrEmpty(q.body[j].content) : j \in DOMAIN q.body } :
                                    q \in { x \in { q1, q2 } : x.op = "submission" } }
\* C26: a finish request that is rejected because the attempt is not found,
\* is another user's or is not "en_progreso", or because the exam or the
\* saved main file of a programming exam is missing, is answered with an
\* error, issues no update of the attempt and executes no test case.
C26_RejectedFinishChangesNothing ==
    (route = "finish" /\ pc = "done") =>
        LET rejected ==
                \/ req.attemptId \notin { "1" }
                \/ /\ "attempt" \in DOMAIN rows
                   /\ \/ rows.attempt = NoRow
                      \/ rows.attempt.userId # req.userId
                      \/ rows.attempt.estado # "en_progreso"
                \/ "exam" \in DOMAIN rows /\ rows.attempt.exam.tipo = "programming"
                                          /\ rows.exam = NoRow
                \/ "mainFile" \in DOMAIN rows /\ rows.mainFile = NoRow
        IN  /\ rejected => /\ res.status \in { 400, 403, 404 }
                           /\ dbWrite = NoWrite
                           /\ calls = << >>
            /\ res.status \in { 400, 403, 404 } => rejected /\ dbWrite = NoWrite

\* the finish of a finalized attempt is answered 400 and nothing is written
C26_Witness ==
    /\ route = "finish"
    /\ pc = "done"
    /\ "attempt" \in DOMAIN rows
    /\ rows.attempt # NoRow
    /\ rows.attempt.userId = req.userId
    /\ rows.attempt.estado = "finalizado"
    /\ res.status = 400
    /\ dbWrite = NoWrite

\* the finish without a saved main file is answered 400
C26_WitnessNoMainFile ==
    /\ route = "finish"
    /\ pc = "done"
    /\ "mainFile" \in DOMAIN rows
    /\ rows.mainFile = NoRow
    /\ res.status = 400

\* C28: in a batch of POST /code-execution/execute and in the evaluation of
\* finish the execution of a case starts only when every earlier one has
\* returned or thrown: at most one execution of the request is in flight.
C28_OneExecutionInFlight ==
    route \in { "execute", "finish" } =>
        /\ Len(outcomes) <= Len(calls)
        /\ Len(calls) <= Len(outcomes) + 1
        /\ engine = NoCall <=> Len(calls) = Len(outcomes)
        /\ engine # NoCall => engine = calls[Len(calls)]

\* the second case of a finish is in flight, the first one has returned
C28_Witness ==
    /\ route = "finish"
    /\ Len(calls) = 2
    /\ Len(outcomes) = 1
    /\ engine = calls[2]

\* the last case of a batch of /execute is in flight
C28_WitnessExecute ==
    /\ route = "execute"
    /\ Len(calls) = MaxCases
    /\ Len(outcomes) = MaxCases - 1
    /\ engine # NoCall
\* C21: a login with an unknown email and a login with the registered email
\* and the same, wrong, password get the same response, 401 with the same
\* body; a password comparison is made in both; a token is in the response
\* only when the user exists and the password is the user's.
C21_LoginDoesNotReveal ==
    /\ \A r1, r2 \in DOMAIN logins :
        LET q1 == logins[r1]
            q2 == logins[r2]
        IN  ( /\ q1.pc = "done" /\ q2.pc = "done"
              /\ q1.email = "no@b.com" /\ q2.email = "a@b.com"
              /\ q1.password = q2.password
              /\ q2.password # << "1", "2", "3" >>
              /\ q1.fault # "findUnique" /\ q2.fault # "findUnique" )
            => /\ q1.res = q2.res
               /\ q1.password # NULL => q1.res.status = 401
               /\ q1.compared.bcrypt # EMPTY /\ q2.compared.bcrypt # EMPTY
               /\ ~q1.compared.missing /\ ~q2.compared.missing
    /\ \A r \in DOMAIN logins :
        LET q == logins[r]
        IN  q.pc = "done"
            => /\ q.res.status = 200
                   <=> ( /\ q.email = "a@b.com"
                         /\ q.password = << "1", "2", "3" >>
                         /\ q.fault = "none" )
               /\ q.res.status = 200 <=> "token" \in DOMAIN q.res.body
               /\ q.res.status = 200 => q.res.body.token.email = q.email

\* the unknown email and the registered one with a wrong password were both
\* answered 401, the unknown one with the password of the dummy hash
C21_Witness ==
    /\ logins["a"].email = "no@b.com"
    /\ logins["a"].password = << "d", "u", "m", "m", "y" >>
    /\ logins["a"].res.status = 401
    /\ logins["b"].email = "a@b.com"
    /\ logins["b"].password = << "d", "u", "m", "m", "y" >>
    /\ logins["b"].res.status = 401
\* C22: every programming exam that POST /exams/create has stored has the
\* language python or javascript and a statement that is not empty, and
\* every engine call made for a stored exam by finish or by test-solution
\* has one of the two languages.
C22_CreatedExamsAreSupported ==
    /\ \A i \in DOMAIN exams :
        exams[i].tipo = "programming"
            => /\ exams[i].lenguajeProgramacion \in { "python", "javascript" }
               /\ exams[i].enunciadoProgramacion \notin { NULL, EMPTY }
    /\ engine # NoCall => engine.language \in { "python", "javascript" }
    /\ res.status = 201 => /\ Len(exams) > 0
                           /\ res.body = exams[Len(exams)]

\* a javascript exam was created and its reference solution is being tested
C22_Witness ==
    /\ \E i \in DOMAIN exams : /\ exams[i].tipo = "programming"
                               /\ exams[i].lenguajeProgramacion = "javascript"
    /\ engine # NoCall
    /\ engine.op = "runTests"
    /\ engine.language = "javascript"
\* the exam rows a response carries
ExamsSent ==
    IF view.res.status # 200 THEN { }
    ELSE IF view.route = "exam" THEN { view.res.body }
    ELSE IF view.route = "results" THEN { view.res.body.exam }
    ELSE IF view.route = "history"
    THEN { view.res.body[i].exam : i \in DOMAIN view.res.body }
    ELSE { }

\* C27: no response carries the reference solution of an exam to a user who
\* is not the professor owning the exam.
C27_SolutionOnlyToOwner ==
    \A e \in ExamsSent :
        ("solucionReferencia" \in DOMAIN e /\ e.solucionReferencia # NULL)
            => e.profesorId = view.user.userId

\* C23: of two finish requests of the owner for one attempt, served at once,
\* at most one takes effect: when one has written its result, the other one,
\* unless it stopped for a missing exam or main file or a failed await, was
\* answered 400 "El intento ya fue finalizado", has executed no test case
\* and has written nothing.
C23_OneFinishTakesEffect ==
    \A r1, r2 \in Handlers :
        ( /\ r1 # r2
          /\ handlers[r1].op = "finish" /\ handlers[r1].wrote
          /\ handlers[r2].op = "finish" /\ handlers[r2].pc = "done"
          /\ handlers[r2].attemptId = attemptRow.id
          /\ handlers[r2].userId = attemptRow.userId
          /\ handlers[r2].rejected \notin { "exam", "file", "db" } )
        => /\ handlers[r2].res =
                [ status |-> 400, body |-> [ error |-> "El intento ya fue finalizado" ] ]
           /\ handlers[r2].ran = 0
           /\ ~handlers[r2].wrote

\* C24: once the estado of the attempt is "finalizado", no step changes its
\* codigoProgramacion, puntaje, testResults or finishedAt.
C24_FinalizedIsFrozen ==
    [][ attemptRow.estado = "finalizado"
        => /\ attemptRow'.codigoProgramacion = attemptRow.codigoProgramacion
           /\ attemptRow'.puntaje = attemptRow.puntaje
           /\ attemptRow'.testResults = attemptRow.testResults
           /\ attemptRow'.finishedAt = attemptRow.finishedAt ]_vars

\* C25: the estado of the attempt is "en_progreso" or "finalizado"; no step
\* takes a finalized attempt back to "en_progreso", and the step that makes
\* it "finalizado" is the update of a finish request of the attempt's owner.
C25_EstadoOnlyForward ==
    [][ /\ attemptRow'.estado \in { "en_progreso", "finalizado" }
        /\ attemptRow.estado = "finalizado" => attemptRow'.estado = "finalizado"
        /\ attemptRow'.estado # attemptRow.estado
           => \E r \in Handlers :
                /\ handlers[r].op = "finish"
                /\ handlers[r].userId = attemptRow.userId
                /\ handlers[r].pc = "update" /\ handlers'[r].wrote ]_vars

\* a finish has finalized the attempt and another request has then written
\* to it or been answered with it: the row it answers with is finalized
C25_Witness ==
    \E r1, r2 \in Handlers :
        /\ handlers[r1].op = "finish" /\ handlers[r1].wrote
        /\ handlers[r2].op \in { "start", "save-code", "manual-grade" }
        /\ handlers[r2].res.status = 200
        /\ handlers[r2].res.body.estado = "finalizado"
        /\ attemptRow.estado = "finalizado"

====
